---- MODULE Spec2Model ----
(***************************************************************************)
(* A model of pydantic-dynamo: the key codec, the update-expression        *)
(* compiler, command validation, the conditional update against the table, *)
(* put/get, the cursor-driven query loop behind list, list_between and     *)
(* delete, the chunked get_batch with its follow-up requests, and the      *)
(* write-once repository built on list_between and put_batch.              *)
(*                                                                         *)
(* Strings whose characters matter (keys, segments) are sequences of       *)
(* one-character strings, so that joining on "#" and splitting on "#" are  *)
(* computed as Python computes them.  Python dicts are insertion-ordered:  *)
(* a dict is a sequence of entries with distinct keys.  Scalar payload     *)
(* values are naturals standing for primitives that clean_value leaves     *)
(* alone.                                                                  *)
(*                                                                         *)
(* SpecWrite: two clients put, get and update the records of one           *)
(* partition; an update is two steps, the call up to its await and the     *)
(* store serving update_item.  SpecQuery: list and list_between over a     *)
(* table of five records, page by page, next to updates that fail          *)
(* validation or are rejected by the store, and delete, whose pages feed   *)
(* the table's batch writer.  SpecBatch: get_batch over the same table,    *)
(* with a store that processes any part of the keys it is asked for;       *)
(* SpecBatchLive adds a consumer that goes on asking and a store that in   *)
(* the end processes every key.  SpecFault: SpecWrite's updates with a     *)
(* store whose update_item may fail for reasons of its own.  SpecPure:     *)
(* validate_command_for_schema and the key codec, each applied to one      *)
(* input.  SpecCommand: puts and updates, one call after the other, whose  *)
(* commands also set mappings, carry current_version 0 or name the         *)
(* internal attributes.  SpecWriteOnce: two clients of one                 *)
(* WriteOnceRepository over an empty table, each write a list_between per  *)
(* partition followed by at most one put_batch.  SpecLists: two clients    *)
(* list the table of five records, their pages interleaved.                *)
(***************************************************************************)
EXTENDS Integers, Sequences, FiniteSets, TLC

VARIABLES
    table,      \* the DynamoDB table: a map from <<partition key, sort key>> to the stored item
    pc,         \* per client: "idle" or "update_item" (an update request is in flight)
    req,        \* per client: the update_item request in flight
    outcome,    \* how the put, get or update that ended last ended
    result,     \* the content the last get returned, when a get ended last
    race,       \* history: the pair of update calls found in flight together on one key
    lastput,    \* history: per table key, the content last put and not updated since
    qs,         \* the list/list_between/delete invocation in progress or just ended
    gb,         \* the get_batch invocation in progress or just ended
    fn,         \* a pure function of the library, its input and, once applied, its output
    wo,         \* per client: the WriteOnceRepository.write invocation in progress or just ended
    ls          \* per client: the list/list_between invocation of the client's own

vars == <<table, pc, req, outcome, result, race, lastput, qs, gb, fn, wo, ls>>

-----------------------------------------------------------------------------
(* Bounds of the model *)

\* update calls are not started on a record whose version has reached this
MaxVersion == 3
\* the most items the store evaluates for one page of a query
MaxPage == 3
\* the largest limit a list call is given
MaxLimit == 3
\* the size of the chunks of get_batch: 100 in the code, lowered so that a handful of
\* request ids makes several chunks
ChunkSize == 2
\* the requests for one chunk of get_batch are counted up to this
MaxAttempts == 3
\* the longest segment list, and the longest segment, the key codec is applied to
MaxSegments == 2
MaxSegmentLen == 2

-----------------------------------------------------------------------------
(* constants.py *)

INTERNAL_TIMESTAMP_KEY == "_timestamp"
INTERNAL_OBJECT_VERSION == "_object_version"
INTERNAL_TTL == "_ttl"
EMPTY_LIST == <<>>

-----------------------------------------------------------------------------
(* Python strings and dicts *)

\* the one-character string s as a Python str
Str(s) == <<s>>

\* sep.join(parts)
RECURSIVE Join(_, _)
Join(parts, sep) ==
    IF Len(parts) = 0 THEN <<>>
    ELSE IF Len(parts) = 1 THEN parts[1]
    ELSE parts[1] \o sep \o Join(Tail(parts), sep)

\* s.split(ch) for a one-character separator: always at least one part
RECURSIVE SplitAcc(_, _, _)
SplitAcc(s, ch, cur) ==
    IF Len(s) = 0 THEN <<cur>>
    ELSE IF s[1] = ch THEN <<cur>> \o SplitAcc(Tail(s), ch, <<>>)
    ELSE SplitAcc(Tail(s), ch, Append(cur, s[1]))

Split(s, ch) == SplitAcc(s, ch, <<>>)

StartsWith(s, prefix) ==
    /\ Len(prefix) <= Len(s)
    /\ SubSeq(s, 1, Len(prefix)) = prefix

\* s.replace(old, "", 1): the first occurrence of old removed
RECURSIVE ReplaceFirst(_, _)
ReplaceFirst(s, old) ==
    IF Len(old) = 0 THEN s
    ELSE IF StartsWith(s, old) THEN SubSeq(s, Len(old) + 1, Len(s))
    ELSE IF Len(s) = 0 THEN s
    ELSE <<s[1]>> \o ReplaceFirst(Tail(s), old)

\* a map extended or overwritten at one key: m[k] = v
MapPut(m, k, v) == [x \in (DOMAIN m) \cup {k} |-> IF x = k THEN v ELSE m[x]]

\* del m[k]
MapDel(m, k) == [x \in (DOMAIN m) \ {k} |-> m[x]]

EmptyMap == [x \in {} |-> 0]

\* the keys of an ordered dict, in order
DictKeys(d) == [i \in 1..Len(d) |-> d[i].k]

DictHas(d, k) == \E i \in 1..Len(d) : d[i].k = k

\* d[k] = entry: overwritten in place when the key is present, appended otherwise
DictSet(d, entry) ==
    IF DictHas(d, entry.k)
    THEN [i \in 1..Len(d) |-> IF d[i].k = entry.k THEN entry ELSE d[i]]
    ELSE Append(d, entry)

\* d.pop(k, None)
RECURSIVE DictPop(_, _)
DictPop(d, k) ==
    IF Len(d) = 0 THEN <<>>
    ELSE IF d[1].k = k THEN DictPop(Tail(d), k)
    ELSE <<d[1]>> \o DictPop(Tail(d), k)

-----------------------------------------------------------------------------
(* The repository's configuration and the key codec *)

Sep == Str("#")

partition_prefix == Str("p")
partition_name == Str("n")
content_type == Str("c")
partition_key == "_table_item_id"
sort_key == "_table_content_id"

\* An id argument is None, a bare str or a sequence of str
IdNone == [kind |-> "none", str |-> <<>>, list |-> <<>>]
IdStr(s) == [kind |-> "str", str |-> s, list |-> <<>>]
IdList(l) == [kind |-> "list", str |-> <<>>, list |-> l]

\* "if x is None: x = EMPTY_LIST"
OrEmpty(ids) == IF ids.kind = "none" THEN IdList(EMPTY_LIST) ELSE ids

_partition_id(partition_ids) ==
    LET ids == OrEmpty(partition_ids)
    IN  IF ids.kind = "str"
        THEN partition_prefix \o Sep \o partition_name \o Sep \o ids.str
        ELSE partition_prefix \o Sep \o partition_name \o Sep \o Join(ids.list, Sep)

_content_id(content_ids) ==
    LET ids == OrEmpty(content_ids)
    IN  IF ids.kind = "str"
        THEN content_type \o Sep \o ids.str
        ELSE content_type \o Sep \o Join(ids.list, Sep)

-----------------------------------------------------------------------------
(* Optional values, commands and the item schema *)

None == [some |-> FALSE, v |-> 0]
Some(x) == [some |-> TRUE, v |-> x]

\* Python truthiness of an Optional[int]: None and 0 are falsy
Truthy(o) == o.some /\ o.v # 0

\* entries of UpdateCommand.set_commands: a scalar value or a one-level dict
SetScalar(key, value) == [k |-> key, isdict |-> FALSE, v |-> value, d |-> <<>>]
SetDict(key, inner) == [k |-> key, isdict |-> TRUE, v |-> 0, d |-> inner]
\* entries of a nested dict and of UpdateCommand.increment_attrs
KV(key, value) == [k |-> key, v |-> value]
\* entries of UpdateCommand.append_attrs: a list, or None
AppendList(key, l) == [k |-> key, isnone |-> FALSE, v |-> l]
AppendNone(key) == [k |-> key, isnone |-> TRUE, v |-> <<>>]

\* a datetime with its sub-second part; int(dt.timestamp()) keeps the seconds
DateTime(sec, usec) == [s |-> sec, us |-> usec]
Timestamp(dt) == dt.s
FromTimestamp(sec) == DateTime(sec, 0)
\* an Optional[datetime]
NoExpiry == [some |-> FALSE, v |-> DateTime(0, 0)]
Expiry(dt) == [some |-> TRUE, v |-> dt]

UpdateCommand(cv, sets, incrs, appends, exp) ==
    [current_version |-> cv, set_commands |-> sets, increment_attrs |-> incrs,
     append_attrs |-> appends, expiry |-> exp]

\* Example.schema(): the properties the commands of the model refer to
Prop(t, r) == [type |-> t, ref |-> r]

ExampleSchema ==
    [title |-> "Example",
     properties |-> [dict_field |-> Prop("object", ""),
                     model_field |-> Prop("", "FieldModel"),
                     list_field |-> Prop("array", ""),
                     date_field |-> Prop("string", ""),
                     int_field |-> Prop("integer", "")],
     definitions |-> [FieldModel |-> [properties |-> {"test_field", "failures"}]]]

-----------------------------------------------------------------------------
(* utils.py: validation *)

Raised(kind, fields) == [raised |-> TRUE, error |-> kind, fields |-> fields]
NotRaised == [raised |-> FALSE, error |-> "", fields |-> <<>>]

\* the nested keys of one set command that the nested schema does not have
RECURSIVE NestedErrorKeys(_, _, _)
NestedErrorKeys(k, inner, nested_props) ==
    IF Len(inner) = 0 THEN <<>>
    ELSE (IF inner[1].k \notin nested_props THEN <<<<k, inner[1].k>>>> ELSE <<>>)
         \o NestedErrorKeys(k, Tail(inner), nested_props)

SetEntryErrorKeys(schema, e) ==
    IF e.k \notin DOMAIN schema.properties THEN <<<<e.k>>>>
    ELSE LET schema_prop == schema.properties[e.k]
         IN  IF e.isdict
             THEN IF schema_prop.ref # ""
                  THEN NestedErrorKeys(e.k, e.d, schema.definitions[schema_prop.ref].properties)
                  ELSE IF schema_prop.type # "object" THEN <<<<e.k>>>> ELSE <<>>
             ELSE <<>>

RECURSIVE SetErrorKeys(_, _)
SetErrorKeys(schema, set_commands) ==
    IF Len(set_commands) = 0 THEN <<>>
    ELSE SetEntryErrorKeys(schema, set_commands[1]) \o SetErrorKeys(schema, Tail(set_commands))

\* the members of attrs the predicate-set does not hold, in order
RECURSIVE NotIn(_, _)
NotIn(attrs, allowed) ==
    IF Len(attrs) = 0 THEN <<>>
    ELSE (IF attrs[1] \notin allowed THEN <<<<attrs[1]>>>> ELSE <<>>) \o NotIn(Tail(attrs), allowed)

validate_attrs_in_schema(schema, attrs) ==
    LET invalid_keys == NotIn(attrs, DOMAIN schema.properties)
    IN  IF Len(invalid_keys) > 0 THEN Raised("ValueError", invalid_keys) ELSE NotRaised

IntegerProps(schema) == {k \in DOMAIN schema.properties : schema.properties[k].type = "integer"}

validate_command_for_schema(schema, command) ==
    LET set_error_keys == SetErrorKeys(schema, command.set_commands)
        increment_attrs == DictKeys(command.increment_attrs)
        attrs == validate_attrs_in_schema(schema, increment_attrs \o DictKeys(command.append_attrs))
        incr_error_keys == NotIn(increment_attrs, IntegerProps(schema))
    IN  IF Len(set_error_keys) > 0 THEN Raised("ValueError", set_error_keys)
        ELSE IF attrs.raised THEN attrs
        ELSE IF Len(incr_error_keys) > 0 THEN Raised("ValueError", incr_error_keys)
        ELSE NotRaised

\* a FilterCommand: not_exists is a set (given here in iteration order)
FilterCommand(not_exists, equals, not_equals) ==
    [not_exists |-> not_exists, equals |-> equals, not_equals |-> not_equals]

validate_filters_for_schema(schema, filters) ==
    validate_attrs_in_schema(
        schema, filters.not_exists \o DictKeys(filters.equals) \o DictKeys(filters.not_equals))

-----------------------------------------------------------------------------
(* utils.py: the update-expression compiler *)

\* "#attN", ":valN", ":zero", ":empty_list"
AttId(n) == <<"att", n>>
ValId(n) == <<"val", n>>
ZeroId == <<"zero">>
EmptyListId == <<"empty_list">>

\* The update expression is "SET " followed by these pieces, in order
SepTok == [op |-> "sep", path |-> <<>>, val |-> <<>>]                \* ", "
SetTok(path, val_id) == [op |-> "set", path |-> path, val |-> val_id]     \* "A = V", "A.B = V"
AddTok(attr_id, val_id) == [op |-> "add", path |-> <<attr_id>>, val |-> val_id]
AppendTok(attr_id, val_id) == [op |-> "append", path |-> <<attr_id>>, val |-> val_id]

\* the grammar of a SET expression: clauses separated by one ", " each
WellFormedExpression(expr) ==
    /\ Len(expr) % 2 = 1
    /\ \A i \in 1..Len(expr) : (expr[i].op = "sep") <=> (i % 2 = 0)

WriteSep(st) == IF st.attr_count > 0 THEN Append(st.expr, SepTok) ELSE st.expr

\* one pass of "for set_k, set_v in v.items()"
RECURSIVE NestedSetLoop(_, _, _)
NestedSetLoop(st, base_attr_id, inner) ==
    IF Len(inner) = 0 THEN st
    ELSE LET attr_count == st.attr_count + 1
             prop_attr_id == AttId(attr_count)
             val_id == ValId(st.val_count)
             next == [expr |-> Append(WriteSep(st), SetTok(<<base_attr_id, prop_attr_id>>, val_id)),
                      names |-> MapPut(st.names, prop_attr_id, inner[1].k),
                      values |-> MapPut(st.values, val_id, inner[1].v),
                      attr_count |-> attr_count,
                      val_count |-> st.val_count + 1]
         IN  NestedSetLoop(next, base_attr_id, Tail(inner))

\* "for k, v in set_attrs.items()"
RECURSIVE SetLoop(_, _)
SetLoop(st, set_attrs) ==
    IF Len(set_attrs) = 0 THEN st
    ELSE LET e == set_attrs[1]
             base_attr_id == AttId(st.attr_count)
             named == [st EXCEPT !.names = MapPut(st.names, base_attr_id, e.k)]
             next ==
                 IF e.isdict
                 THEN LET after == NestedSetLoop(named, base_attr_id, e.d)
                      IN  [after EXCEPT !.attr_count = after.attr_count + 1]
                 ELSE LET val_id == ValId(st.val_count)
                      IN  [expr |-> Append(WriteSep(named), SetTok(<<base_attr_id>>, val_id)),
                           names |-> named.names,
                           values |-> MapPut(named.values, val_id, e.v),
                           attr_count |-> named.attr_count + 1,
                           val_count |-> named.val_count + 1]
         IN  SetLoop(next, Tail(set_attrs))

\* "for k, v in add_attrs.items()"
RECURSIVE AddLoop(_, _)
AddLoop(st, add_attrs) ==
    IF Len(add_attrs) = 0 THEN st
    ELSE LET attr_id == AttId(st.attr_count)
             val_id == ValId(st.val_count)
             next == [expr |-> Append(WriteSep(st), AddTok(attr_id, val_id)),
                      names |-> MapPut(st.names, attr_id, add_attrs[1].k),
                      values |-> MapPut(st.values, val_id, add_attrs[1].v),
                      attr_count |-> st.attr_count + 1,
                      val_count |-> st.val_count + 1]
         IN  AddLoop(next, Tail(add_attrs))

\* "for k, v in append_attrs.items()"; a None value is appended as 1
RECURSIVE AppendLoop(_, _)
AppendLoop(st, append_attrs) ==
    IF Len(append_attrs) = 0 THEN st
    ELSE LET attr_id == AttId(st.attr_count)
             val_id == ValId(st.val_count)
             e == append_attrs[1]
             next == [expr |-> Append(WriteSep(st), AppendTok(attr_id, val_id)),
                      names |-> MapPut(st.names, attr_id, e.k),
                      values |-> MapPut(st.values, val_id, IF e.isnone THEN 1 ELSE e.v),
                      attr_count |-> st.attr_count + 1,
                      val_count |-> st.val_count + 1]
         IN  AppendLoop(next, Tail(append_attrs))

\* a condition is the AND of its equalities, in order; None when there is none
Eq(attr, value) == [attr |-> attr, value |-> value]

\* the optional key argument: absent, or {partition_key: pk, sort_key: sk}
NoKey == <<>>
KeyDict(pk, sk) == <<KV(partition_key, pk), KV(sort_key, sk)>>

\* build_update_condition without "if command.current_version:"
build_update_condition_key_only(command, key) ==
    [i \in 1..Len(key) |-> Eq(key[i].k, key[i].v)]

\* build_update_condition with "if command.current_version is not None:"
build_update_condition_not_none(command, key) ==
    [i \in 1..Len(key) |-> Eq(key[i].k, key[i].v)]
    \o (IF command.current_version.some
        THEN <<Eq(INTERNAL_OBJECT_VERSION, command.current_version.v)>>
        ELSE <<>>)

build_update_condition(command, key) ==
    [i \in 1..Len(key) |-> Eq(key[i].k, key[i].v)]
    \o (IF Truthy(command.current_version)
        THEN <<Eq(INTERNAL_OBJECT_VERSION, command.current_version.v)>>
        ELSE <<>>)

\* clean_dict(values): every compiled value of the model is a primitive, which
\* clean_value returns as it is; the clock reading is written as its ISO string,
\* which no operation reads back
clean_values(values) ==
    [id \in DOMAIN values |-> values[id]]

\* The command object the caller passed, as build_update_args_for_command leaves it:
\* set_commands, increment_attrs and append_attrs are the command's own dicts
SetAttrs(command, now) ==
    LET stamped == DictSet(command.set_commands, SetScalar(INTERNAL_TIMESTAMP_KEY, now))
        withttl == IF command.expiry.some
                   THEN DictSet(stamped, SetScalar(INTERNAL_TTL, Timestamp(command.expiry.v)))
                   ELSE stamped
    IN  DictPop(withttl, INTERNAL_OBJECT_VERSION)

\* build_update_args_for_command without "add_attrs.update(**{INTERNAL_OBJECT_VERSION: 1})"
AddAttrsWithoutVersion(command) == DictPop(command.increment_attrs, INTERNAL_TIMESTAMP_KEY)

AddAttrs(command) ==
    DictPop(DictSet(command.increment_attrs, KV(INTERNAL_OBJECT_VERSION, 1)), INTERNAL_TIMESTAMP_KEY)

AppendAttrs(command) ==
    DictPop(DictPop(command.append_attrs, INTERNAL_TIMESTAMP_KEY), INTERNAL_OBJECT_VERSION)

CommandAfterBuild(command, now) ==
    [command EXCEPT !.set_commands = SetAttrs(command, now),
                    !.increment_attrs = AddAttrs(command),
                    !.append_attrs = AppendAttrs(command)]

\* build_update_args_for_command whose counters start again at 0 in each section
build_update_args_for_command_section_counters(command, key, now) ==
    LET start == [expr |-> <<>>, names |-> EmptyMap, values |-> MapPut(EmptyMap, ZeroId, 0),
                  attr_count |-> 0, val_count |-> 0]
        sets == SetLoop(start, SetAttrs(command, now))
        adds == AddLoop([sets EXCEPT !.attr_count = 0, !.val_count = 0], AddAttrs(command))
        append_attrs == AppendAttrs(command)
        listed == IF Len(append_attrs) > 0
                  THEN [adds EXCEPT !.values = MapPut(adds.values, EmptyListId, <<>>)]
                  ELSE adds
        appends == AppendLoop([listed EXCEPT !.attr_count = 0, !.val_count = 0], append_attrs)
    IN  [update_expression |-> appends.expr,
         condition_expression |-> build_update_condition(command, key),
         attribute_names |-> appends.names,
         attribute_values |-> clean_values(appends.values)]

build_update_args_for_command(command, key, now) ==
    LET start == [expr |-> <<>>, names |-> EmptyMap, values |-> MapPut(EmptyMap, ZeroId, 0),
                  attr_count |-> 0, val_count |-> 0]
        sets == SetLoop(start, SetAttrs(command, now))
        adds == AddLoop(sets, AddAttrs(command))
        append_attrs == AppendAttrs(command)
        listed == IF Len(append_attrs) > 0
                  THEN [adds EXCEPT !.values = MapPut(adds.values, EmptyListId, <<>>)]
                  ELSE adds
        appends == AppendLoop(listed, append_attrs)
    IN  [update_expression |-> appends.expr,
         condition_expression |-> build_update_condition(command, key),
         attribute_names |-> appends.names,
         attribute_values |-> clean_values(appends.values)]

-----------------------------------------------------------------------------
(* The table behind the repository: DynamoDB's put_item, get_item, update_item *)

NoItem == EmptyMap

StoredItem(tbl, key) == IF key \in DOMAIN tbl THEN tbl[key] ELSE NoItem

\* a condition expression holds of an item when every equality does; an attribute
\* the item does not have equals nothing
ConditionHolds(condition, item) ==
    \A i \in 1..Len(condition) :
        /\ condition[i].attr \in DOMAIN item
        /\ item[condition[i].attr] = condition[i].value

IfNotExists(item, attr, default) == IF attr \in DOMAIN item THEN item[attr] ELSE default

\* one piece of a SET expression applied to an item
ApplyTok(item, tok, names, values) ==
    IF tok.op = "sep" THEN item
    ELSE LET attr == names[tok.path[1]]
         IN  IF tok.op = "set"
             THEN IF Len(tok.path) = 1
                  THEN MapPut(item, attr, values[tok.val])
                  ELSE MapPut(item, attr,
                              MapPut(IfNotExists(item, attr, EmptyMap),
                                     names[tok.path[2]], values[tok.val]))
             ELSE IF tok.op = "add"
             THEN MapPut(item, attr, IfNotExists(item, attr, values[ZeroId]) + values[tok.val])
             ELSE MapPut(item, attr,
                         IfNotExists(item, attr, values[EmptyListId]) \o values[tok.val])

RECURSIVE ApplyExpression(_, _, _, _)
ApplyExpression(item, expr, names, values) ==
    IF Len(expr) = 0 THEN item
    ELSE ApplyExpression(ApplyTok(item, expr[1], names, values), Tail(expr), names, values)

KeyOf(key_dict) == <<key_dict[1].v, key_dict[2].v>>

\* an item that is created by an update starts from its key attributes
KeyItem(key_dict) ==
    MapPut(MapPut(EmptyMap, key_dict[1].k, key_dict[1].v), key_dict[2].k, key_dict[2].v)

\* an exception object: its class, whether it has a response attribute, and the
\* Error.Code of that response ("" for a response without one)
Exception(type, has_response, code) ==
    [type |-> type, has_response |-> has_response, code |-> code]

NoException == Exception("", FALSE, "")

\* what the store raises for an update expression it cannot parse
ValidationException == Exception("ClientError", TRUE, "ValidationException")

\* what the store raises when the condition of an update_item does not hold
ConditionalCheckFailed == Exception("ClientError", TRUE, "ConditionalCheckFailedException")

\* the other failures of a request: a ClientError with another code, a ClientError
\* whose response names no code, and an error raised before any response
StoreFaults ==
    {Exception("ClientError", TRUE, "ProvisionedThroughputExceededException"),
     Exception("ClientError", TRUE, ""),
     Exception("EndpointConnectionError", FALSE, "")}

\* utils.get_error_code: "" stands for None
get_error_code(ex) == IF ex.has_response THEN ex.code ELSE ""

\* table.update_item(**update_kwargs): atomic; an expression the store cannot parse
\* is refused; the condition is evaluated against the stored item and the expression
\* applied only when it holds; a request that meets a fault changes nothing
StoreUpdateItem(tbl, update_kwargs, fault) ==
    LET key == KeyOf(update_kwargs.Key)
        item == StoredItem(tbl, key)
    IN  IF fault # NoException
        THEN [error |-> fault, table |-> tbl]
        ELSE IF ~WellFormedExpression(update_kwargs.UpdateExpression)
        THEN [error |-> ValidationException, table |-> tbl]
        ELSE IF /\ update_kwargs.HasCondition
                /\ ~ConditionHolds(update_kwargs.ConditionExpression, item)
        THEN [error |-> ConditionalCheckFailed, table |-> tbl]
        ELSE [error |-> NoException,
              table |-> MapPut(tbl, key,
                               ApplyExpression(
                                   IF key \in DOMAIN tbl THEN item ELSE KeyItem(update_kwargs.Key),
                                   update_kwargs.UpdateExpression,
                                   update_kwargs.ExpressionAttributeNames,
                                   update_kwargs.ExpressionAttributeValues))]

\* "if args.condition_expression: update_kwargs['ConditionExpression'] = ..."
UpdateKwargs(key, args) ==
    [Key |-> key,
     UpdateExpression |-> args.update_expression,
     ExpressionAttributeNames |-> args.attribute_names,
     ExpressionAttributeValues |-> args.attribute_values,
     HasCondition |-> Len(args.condition_expression) > 0,
     ConditionExpression |-> args.condition_expression]

\* execute_update_item that does not raise on ConditionalCheckFailedException
execute_update_item_silent(tbl, key, args, fault) ==
    [table |-> StoreUpdateItem(tbl, UpdateKwargs(key, args), fault).table, raised |-> "",
     exception |-> NoException]

\* execute_update_item whose except clause raises RequestObjectStateError whatever the code
execute_update_item_any_code(tbl, key, args, fault) ==
    LET response == StoreUpdateItem(tbl, UpdateKwargs(key, args), fault)
        exception == IF response.error # NoException
                     THEN Exception("RequestObjectStateError", FALSE, "")
                     ELSE NoException
    IN  [table |-> response.table, raised |-> exception.type, exception |-> exception]

\* utils.execute_update_item: the store's conditional-check failure becomes
\* RequestObjectStateError, any other error is raised again as it is
execute_update_item(tbl, key, args, fault) ==
    LET response == StoreUpdateItem(tbl, UpdateKwargs(key, args), fault)
        exception == IF response.error = NoException THEN NoException
                     ELSE IF get_error_code(response.error) = "ConditionalCheckFailedException"
                     THEN Exception("RequestObjectStateError", FALSE, "")
                     ELSE response.error
    IN  [table |-> response.table, raised |-> exception.type, exception |-> exception]

\* update without "if require_exists:": the key is never passed on
BuildKeyNever(require_exists, key) == NoKey

\* "if require_exists: build_kwargs['key'] = key"
BuildKey(require_exists, key) == IF require_exists THEN key ELSE NoKey

\* DynamoRepository.update without "validate_command_for_schema(...)"
update_without_validation(partition_id, content_id, command, require_exists, now) ==
    LET key == KeyDict(_partition_id(partition_id), _content_id(content_id))
    IN  [raised |-> "", fields |-> <<>>, send |-> TRUE, key |-> key,
         args |-> build_update_args_for_command(command, BuildKey(require_exists, key), now),
         command |-> CommandAfterBuild(command, now)]

\* DynamoRepository.update up to its await: validation, then the compiled request
update(partition_id, content_id, command, require_exists, now) ==
    LET validation == validate_command_for_schema(ExampleSchema, command)
        key == KeyDict(_partition_id(partition_id), _content_id(content_id))
    IN  IF validation.raised
        THEN [raised |-> validation.error, fields |-> validation.fields, send |-> FALSE,
              key |-> key, args |-> <<>>, command |-> command]
        ELSE [raised |-> "", fields |-> <<>>, send |-> TRUE,
              key |-> key,
              args |-> build_update_args_for_command(command, BuildKey(require_exists, key), now),
              command |-> CommandAfterBuild(command, now)]

-----------------------------------------------------------------------------
(* v2/repository.py: put and get *)

ItemFields == DOMAIN ExampleSchema.properties

PartitionedContent(partition_ids, content_ids, item, current_version, expiry) ==
    [partition_ids |-> partition_ids, content_ids |-> content_ids, item |-> item,
     current_version |-> current_version, expiry |-> expiry]

\* the stored version is the content's current_version (1 unless the caller set it)
_put_content(content, now) ==
    LET item_dict == [f \in ItemFields \cup {INTERNAL_OBJECT_VERSION, INTERNAL_TIMESTAMP_KEY} |->
                         IF f = INTERNAL_OBJECT_VERSION THEN content.current_version
                         ELSE IF f = INTERNAL_TIMESTAMP_KEY THEN now
                         ELSE content.item[f]]
        put_item == MapPut(MapPut(item_dict, partition_key, _partition_id(IdList(content.partition_ids))),
                           sort_key, _content_id(IdList(content.content_ids)))
    IN  IF content.expiry.some
        THEN MapPut(put_item, INTERNAL_TTL, Timestamp(content.expiry.v))
        ELSE put_item

\* table.put_item(Item=put_item): the item replaces whatever its key held
StorePutItem(tbl, put_item) == MapPut(tbl, <<put_item[partition_key], put_item[sort_key]>>, put_item)

\* item_class(**db_item) needs every declared field; other attributes are ignored
CanParseItem(db_item) == ItemFields \cup {INTERNAL_OBJECT_VERSION} \subseteq DOMAIN db_item

_db_item_to_object(db_item) ==
    LET db_expiry == IfNotExists(db_item, INTERNAL_TTL, 0)
    IN  PartitionedContent(
            Split(ReplaceFirst(db_item[partition_key], _partition_id(IdList(EMPTY_LIST))), "#"),
            Split(ReplaceFirst(db_item[sort_key], _content_id(IdList(EMPTY_LIST))), "#"),
            [f \in ItemFields |-> db_item[f]],
            db_item[INTERNAL_OBJECT_VERSION],
            IF db_expiry # 0 THEN Expiry(FromTimestamp(db_expiry)) ELSE NoExpiry)

\* DynamoRepository.get: GetResponse.content is the parsed item, or None
get(tbl, partition_id, content_id) ==
    LET key == <<_partition_id(OrEmpty(partition_id)), _content_id(OrEmpty(content_id))>>
    IN  IF key \in DOMAIN tbl
        THEN IF CanParseItem(tbl[key])
             THEN [raised |-> "", content |-> <<_db_item_to_object(tbl[key])>>]
             ELSE [raised |-> "ValidationError", content |-> <<>>]
        ELSE [raised |-> "", content |-> <<>>]

-----------------------------------------------------------------------------
(* utils.py: the filter-expression compiler *)

Cond(op, attr, value) == [op |-> op, attr |-> attr, value |-> value]

\* build_filter_expression: the conjuncts in the order they are ANDed, not_exists
\* first, then equals, then not_equals; no conjunct at all is None
build_filter_expression(filters) ==
    [i \in 1..Len(filters.not_exists) |-> Cond("not_exists", filters.not_exists[i], 0)]
    \o [i \in 1..Len(filters.equals) |-> Cond("eq", filters.equals[i].k, filters.equals[i].v)]
    \o [i \in 1..Len(filters.not_equals) |->
           Cond("ne", filters.not_equals[i].k, filters.not_equals[i].v)]

\* an Optional[FilterCommand]
NoFilters == [some |-> FALSE, v |-> FilterCommand(<<>>, <<>>, <<>>)]
Filters(f) == [some |-> TRUE, v |-> f]

-----------------------------------------------------------------------------
(* The table behind the repository: DynamoDB's query *)

\* the code points of the characters the keys are made of
Ord(ch) ==
    CASE ch = "#" -> 35
      [] ch = "0" -> 48
      [] ch = "1" -> 49
      [] ch = "2" -> 50
      [] ch = "9" -> 57
      [] ch = "a" -> 97
      [] ch = "b" -> 98
      [] ch = "c" -> 99
      [] ch = "n" -> 110
      [] ch = "p" -> 112

\* the order of strings as the store sorts and compares sort keys
RECURSIVE StrLess(_, _)
StrLess(s, t) ==
    IF Len(t) = 0 THEN FALSE
    ELSE IF Len(s) = 0 THEN TRUE
    ELSE IF s[1] # t[1] THEN Ord(s[1]) < Ord(t[1])
    ELSE StrLess(Tail(s), Tail(t))

StrLeq(s, t) == s = t \/ StrLess(s, t)

\* Key(pk).eq(..) & Key(sk).begins_with(..), Key(pk).eq(..) & Key(sk).between(.., ..)
BeginsWith(pk, prefix) == [op |-> "begins_with", pk |-> pk, low |-> prefix, high |-> prefix]
Between(pk, low_value, high_value) == [op |-> "between", pk |-> pk, low |-> low_value, high |-> high_value]

KeyConditionHolds(condition, key) ==
    /\ key[1] = condition.pk
    /\ IF condition.op = "begins_with"
       THEN StartsWith(key[2], condition.low)
       ELSE StrLeq(condition.low, key[2]) /\ StrLeq(key[2], condition.high)

\* the keys of a set in sort-key order, ascending or descending
RECURSIVE SortKeys(_, _)
SortKeys(keys, forward) ==
    IF keys = {} THEN <<>>
    ELSE LET first == CHOOSE k \in keys :
                          \A other \in keys :
                              IF forward THEN StrLeq(k[2], other[2]) ELSE StrLeq(other[2], k[2])
         IN  <<first>> \o SortKeys(keys \ {first}, forward)

FilterHolds(expression, item) ==
    \A i \in 1..Len(expression) :
        LET cond == expression[i]
        IN  CASE cond.op = "not_exists" -> cond.attr \notin DOMAIN item
              [] cond.op = "eq" -> cond.attr \in DOMAIN item /\ item[cond.attr] = cond.value
              [] cond.op = "ne" -> cond.attr \notin DOMAIN item \/ item[cond.attr] # cond.value

RECURSIVE Filtered(_, _, _)
Filtered(tbl, keys, expression) ==
    IF Len(keys) = 0 THEN <<>>
    ELSE (IF FilterHolds(expression, tbl[keys[1]]) THEN <<keys[1]>> ELSE <<>>)
         \o Filtered(tbl, Tail(keys), expression)

\* the arguments of table.query; an absent argument has its Has.. flag FALSE, and
\* Select / ProjectionExpression / ExpressionAttributeNames are present together, when
\* select_fields (the attributes the projection names) is not empty
QueryKwargs(condition, forward, has_filter, filter_expression, has_limit, limit, select_fields) ==
    [KeyConditionExpression |-> condition, ScanIndexForward |-> forward,
     HasFilterExpression |-> has_filter, FilterExpression |-> filter_expression,
     HasLimit |-> has_limit, Limit |-> limit,
     HasProjection |-> Len(select_fields) > 0, ProjectionExpression |-> select_fields,
     HasExclusiveStartKey |-> FALSE, ExclusiveStartKey |-> <<>>]

\* a key lies beyond the cursor in the direction of the scan; the cursor is a position,
\* its record may be gone
Beyond(key, query_kwargs) ==
    query_kwargs.HasExclusiveStartKey =>
        IF query_kwargs.ScanIndexForward
        THEN StrLess(query_kwargs.ExclusiveStartKey[2], key[2])
        ELSE StrLess(key[2], query_kwargs.ExclusiveStartKey[2])

\* the keys a query has still to evaluate, in the order it evaluates them
Remaining(tbl, query_kwargs) ==
    SortKeys({k \in DOMAIN tbl :
                 /\ KeyConditionHolds(query_kwargs.KeyConditionExpression, k)
                 /\ Beyond(k, query_kwargs)},
             query_kwargs.ScanIndexForward)

\* an item as the query returns it: whole, or the attributes the projection names
Projected(item, query_kwargs) ==
    IF query_kwargs.HasProjection
    THEN [a \in {query_kwargs.ProjectionExpression[i] :
                    i \in 1..Len(query_kwargs.ProjectionExpression)} \cap DOMAIN item |-> item[a]]
    ELSE item

Min(a, b) == IF a < b THEN a ELSE b

\* the most items one page can evaluate: the request's Limit, and the store's own ceiling
PageCap(query_kwargs) ==
    IF query_kwargs.HasLimit THEN Min(query_kwargs.Limit, MaxPage) ELSE MaxPage

\* a page that evaluated the first size remaining keys. Count is the number of
\* items that passed the filter
Response(tbl, query_kwargs, size, has_last) ==
    LET remaining == Remaining(tbl, query_kwargs)
        evaluated == SubSeq(remaining, 1, size)
        passed == IF query_kwargs.HasFilterExpression
                  THEN Filtered(tbl, evaluated, query_kwargs.FilterExpression)
                  ELSE evaluated
    IN  [Items |-> [i \in 1..Len(passed) |-> Projected(tbl[passed[i]], query_kwargs)],
         Count |-> Len(passed), ScannedCount |-> size,
         HasLastEvaluatedKey |-> has_last,
         LastEvaluatedKey |-> IF has_last THEN evaluated[size] ELSE <<>>]

\* table.query(**query_kwargs): the store evaluates at least one key when one remains,
\* at most PageCap; it returns a LastEvaluatedKey when keys remain after the page, and
\* it may return one when the page ended on the last key
StoreQuery(tbl, query_kwargs) ==
    LET left == Len(Remaining(tbl, query_kwargs))
    IN  IF left = 0 THEN {Response(tbl, query_kwargs, 0, FALSE)}
        ELSE {Response(tbl, query_kwargs, page[1], page[2]) :
                 page \in {p \in (1..Min(PageCap(query_kwargs), left)) \X BOOLEAN :
                              p[1] < left => p[2]}}

-----------------------------------------------------------------------------
(* v2/repository.py: list, list_between and _query_all_data *)

NoKwargs == QueryKwargs(BeginsWith(<<>>, <<>>), TRUE, FALSE, <<>>, FALSE, 0, <<>>)

\* _query_all_data with "if limit:" for "if limit and FILTER_EXPRESSION not in query_kwargs:"
_query_all_data_limit_with_filter(key_condition_expression, sort_ascending, limit, filters, select_fields) ==
    LET validation == IF filters.some
                      THEN validate_filters_for_schema(ExampleSchema, filters.v)
                      ELSE NotRaised
        filter_expression == IF filters.some THEN build_filter_expression(filters.v) ELSE <<>>
    IN  IF validation.raised
        THEN [raised |-> validation.error, limit |-> limit, query_kwargs |-> NoKwargs]
        ELSE [raised |-> "", limit |-> limit,
              query_kwargs |-> QueryKwargs(key_condition_expression, sort_ascending,
                                           Len(filter_expression) > 0, filter_expression,
                                           Truthy(limit), IF Truthy(limit) THEN limit.v ELSE 0,
                                           select_fields)]

\* _query_all_data up to its first "await self._table.query": filters are validated
\* and compiled, and Limit is passed only when limit is truthy and no
\* FilterExpression was added; select_fields become the projection
_query_all_data(key_condition_expression, sort_ascending, limit, filters, select_fields) ==
    LET validation == IF filters.some
                      THEN validate_filters_for_schema(ExampleSchema, filters.v)
                      ELSE NotRaised
        filter_expression == IF filters.some THEN build_filter_expression(filters.v) ELSE <<>>
        has_filter == Len(filter_expression) > 0
        has_limit == Truthy(limit) /\ ~has_filter
    IN  IF validation.raised
        THEN [raised |-> validation.error, limit |-> limit, query_kwargs |-> NoKwargs]
        ELSE [raised |-> "", limit |-> limit,
              query_kwargs |-> QueryKwargs(key_condition_expression, sort_ascending,
                                           has_filter, filter_expression,
                                           has_limit, IF has_limit THEN limit.v ELSE 0,
                                           select_fields)]

\* DynamoRepository.list: a begins_with query
list(partition_id, content_prefix, sort_ascending, limit, filters) ==
    _query_all_data(BeginsWith(_partition_id(OrEmpty(partition_id)),
                               _content_id(OrEmpty(content_prefix))),
                    sort_ascending, limit, filters, <<>>)

\* DynamoRepository.list_between: equal bounds go to self.list(partition_id,
\* content_start), whose other parameters take their defaults; otherwise a between query
list_between(partition_id, content_start, content_end, sort_ascending, limit, filters) ==
    IF OrEmpty(content_start) = OrEmpty(content_end)
    THEN list(OrEmpty(partition_id), OrEmpty(content_start), TRUE, None, NoFilters)
    ELSE _query_all_data(Between(_partition_id(OrEmpty(partition_id)),
                                 _content_id(OrEmpty(content_start)),
                                 _content_id(OrEmpty(content_end))),
                         sort_ascending, limit, filters, <<>>)

\* DynamoRepository.delete up to its first query: a begins_with query for the key
\* attributes alone
delete(partition_id, content_prefix) ==
    _query_all_data(BeginsWith(_partition_id(OrEmpty(partition_id)),
                               _content_id(OrEmpty(content_prefix))),
                    TRUE, None, NoFilters, <<partition_key, sort_key>>)

\* the caller's invocation
ListInvocation(op, partition_id, content_start, content_end, sort_ascending, limit, filters) ==
    [op |-> op, partition_id |-> partition_id, content_start |-> content_start,
     content_end |-> content_end, sort_ascending |-> sort_ascending, limit |-> limit,
     filters |-> filters]

NoInvocation == ListInvocation("none", IdNone, IdNone, IdNone, TRUE, None, NoFilters)

\* a list, list_between or delete invocation: where it stands, what _query_all_data
\* was given and has counted, the requests sent and the responses received so far, the
\* contents collected and the BatchResponses handed to the consumer; for delete, the
\* keys the batch writer holds and the table the invocation began with
NoQuery ==
    [pc |-> "idle", call |-> NoInvocation, raised |-> "", limit |-> None,
     query_kwargs |-> NoKwargs, total_count |-> 0, requests |-> <<>>, responses |-> <<>>,
     contents |-> <<>>, yielded |-> <<>>, writer |-> <<>>, before |-> EmptyMap]

\* the invocation up to its first request, or to the validation error
Started(call, start) ==
    IF start.raised # ""
    THEN [NoQuery EXCEPT !.pc = "done", !.call = call, !.raised = start.raised,
                         !.limit = start.limit]
    ELSE [NoQuery EXCEPT !.pc = "query", !.call = call, !.limit = start.limit,
                         !.query_kwargs = start.query_kwargs,
                         !.requests = <<start.query_kwargs>>]

\* _query_all_data that sets ExclusiveStartKey once and never renews it
AfterResponseStaleCursor(q, response) ==
    LET total_count == q.total_count + response.Count
        contents == IF q.call.op = "delete" THEN <<>>
                    ELSE q.contents \o [i \in 1..response.Count |->
                                           _db_item_to_object(response.Items[i])]
        stop == \/ ~response.HasLastEvaluatedKey
                \/ Truthy(q.limit) /\ total_count >= q.limit.v
        query_kwargs == IF q.query_kwargs.HasExclusiveStartKey THEN q.query_kwargs
                        ELSE [q.query_kwargs EXCEPT !.HasExclusiveStartKey = TRUE,
                                                    !.ExclusiveStartKey = response.LastEvaluatedKey]
    IN  IF stop
        THEN [q EXCEPT !.pc = "done", !.total_count = total_count,
                       !.responses = Append(q.responses, response),
                       !.contents = contents,
                       !.yielded = IF q.call.op = "delete" THEN <<>> ELSE <<contents>>]
        ELSE [q EXCEPT !.total_count = total_count,
                       !.responses = Append(q.responses, response),
                       !.contents = contents, !.query_kwargs = query_kwargs,
                       !.requests = Append(q.requests, query_kwargs)]

\* _query_all_data from a response on: count it, hand the items on, and either stop
\* (no LastEvaluatedKey, or a truthy limit reached) or send the next request; list
\* hands the consumer one BatchResponse once _query_all_data is exhausted, delete
\* hands it nothing
AfterResponse(q, response) ==
    LET total_count == q.total_count + response.Count
        contents == IF q.call.op = "delete" THEN <<>>
                    ELSE q.contents \o [i \in 1..response.Count |->
                                           _db_item_to_object(response.Items[i])]
        stop == \/ ~response.HasLastEvaluatedKey
                \/ Truthy(q.limit) /\ total_count >= q.limit.v
        query_kwargs == [q.query_kwargs EXCEPT !.HasExclusiveStartKey = TRUE,
                                               !.ExclusiveStartKey = response.LastEvaluatedKey]
    IN  IF stop
        THEN [q EXCEPT !.pc = "done", !.total_count = total_count,
                       !.responses = Append(q.responses, response),
                       !.contents = contents,
                       !.yielded = IF q.call.op = "delete" THEN <<>> ELSE <<contents>>]
        ELSE [q EXCEPT !.total_count = total_count,
                       !.responses = Append(q.responses, response),
                       !.contents = contents, !.query_kwargs = query_kwargs,
                       !.requests = Append(q.requests, query_kwargs)]

-----------------------------------------------------------------------------
(* v2/repository.py: delete, and the table's batch writer *)

\* the number of buffered requests at which the batch writer sends a batch: 25 in the
\* store's client, lowered so that a delete of a few records flushes between pages
FlushAmount == 2

\* a batch of delete requests served by the store
DeleteKeys(tbl, keys) ==
    [k \in (DOMAIN tbl) \ {keys[i] : i \in 1..Len(keys)} |-> tbl[k]]

\* the batch writer: the requests it holds, and the table as its flushes have left it
Writer(buffer, tbl) == [buffer |-> buffer, table |-> tbl]

\* "for item in items: await writer.delete_item(Key={...})": each request is
\* buffered, and a buffer that has reached FlushAmount is sent
RECURSIVE WriterDeleteItems(_, _)
WriterDeleteItems(w, items) ==
    IF Len(items) = 0 THEN w
    ELSE LET buffer == Append(w.buffer, <<items[1][partition_key], items[1][sort_key]>>)
         IN  WriterDeleteItems(
                 IF Len(buffer) >= FlushAmount
                 THEN Writer(SubSeq(buffer, FlushAmount + 1, Len(buffer)),
                             DeleteKeys(w.table, SubSeq(buffer, 1, FlushAmount)))
                 ELSE Writer(buffer, w.table),
                 Tail(items))

\* a batch writer that drops what it holds when it is left
WriterExitNoFlush(w) == Writer(<<>>, w.table)

\* leaving "async with self._table.batch_writer()": what is still buffered is sent
WriterExit(w) == Writer(<<>>, DeleteKeys(w.table, w.buffer))

\* delete from a response on: the page's keys go to the batch writer, and the writer
\* is left once _query_all_data is exhausted
DeleteAfterResponse(q, tbl, response) ==
    LET step == AfterResponse(q, response)
        w == WriterDeleteItems(Writer(q.writer, tbl), response.Items)
        after == IF step.pc = "done" THEN WriterExit(w) ELSE w
    IN  [qs |-> [step EXCEPT !.writer = after.buffer], table |-> after.table]

-----------------------------------------------------------------------------
(* v2/repository.py: get_batch, and the resource's batch_get_item *)

\* utils.chunks: "for i in range(0, len(items), size): yield items[i : (i + size)]"
RECURSIVE chunks(_, _)
chunks(items, size) ==
    IF Len(items) = 0 THEN <<>>
    ELSE <<SubSeq(items, 1, Min(size, Len(items)))>>
         \o chunks(SubSeq(items, size + 1, Len(items)), size)

\* the keys of one chunk of request ids, in order
BatchKeys(request_id_batch) ==
    [i \in 1..Len(request_id_batch) |->
        KeyDict(_partition_id(request_id_batch[i][1]), _content_id(request_id_batch[i][2]))]

\* the members of a sequence at the positions keep, from position i on, in order
RECURSIVE Pick(_, _, _)
Pick(seq, keep, i) ==
    IF i > Len(seq) THEN <<>>
    ELSE (IF i \in keep THEN <<seq[i]>> ELSE <<>>) \o Pick(seq, keep, i + 1)

\* a batch_get_item response: the stored items of the keys the store processed, and
\* the keys it did not process
BatchGetResponse(tbl, keys, processed) ==
    [Responses |-> LET found == Pick(keys, {i \in processed : KeyOf(keys[i]) \in DOMAIN tbl}, 1)
                   IN  [i \in 1..Len(found) |-> tbl[KeyOf(found[i])]],
     UnprocessedKeys |-> Pick(keys, (1..Len(keys)) \ processed, 1)]

NoResponse == [Responses |-> <<>>, UnprocessedKeys |-> <<>>]

\* resource.batch_get_item(RequestItems={table_name: {"Keys": keys}}): the store
\* processes any of the keys, all, some or none, and reports the others as unprocessed
StoreBatchGetItem(tbl, keys) ==
    {BatchGetResponse(tbl, keys, processed) : processed \in SUBSET (1..Len(keys))}

\* a get_batch invocation: where it stands, its chunks and the number of the chunk it
\* is at, the Keys of the request in flight, the last response, and the contents of
\* the BatchResponses yielded so far. History: the items of all the responses, and the
\* requests sent for the chunk, counted up to MaxAttempts
NoBatch ==
    [pc |-> "idle", request_ids |-> <<>>, batches |-> <<>>, batch_number |-> 0,
     keys |-> <<>>, response |-> NoResponse, delivered |-> <<>>, received |-> <<>>,
     attempts |-> 0]

\* get_batch up to its first await: nothing is requested for no request ids
get_batch(request_ids) ==
    LET batches == chunks(request_ids, ChunkSize)
    IN  IF Len(batches) = 0
        THEN [NoBatch EXCEPT !.pc = "done", !.request_ids = request_ids]
        ELSE [NoBatch EXCEPT !.pc = "batch_get_item", !.request_ids = request_ids,
                             !.batches = batches, !.batch_number = 1,
                             !.keys = BatchKeys(batches[1]), !.attempts = 1]

\* get_batch on which only a chunk's first response is yielded
GetBatchYieldFirstOnly(g, response) ==
    [g EXCEPT !.pc = "yielded", !.response = response,
              !.delivered = IF g.attempts > 1 THEN g.delivered
                            ELSE g.delivered \o [i \in 1..Len(response.Responses) |->
                                                    _db_item_to_object(response.Responses[i])],
              !.received = g.received \o response.Responses]

\* get_batch from a response to its yield: a BatchResponse of the response's items,
\* for a chunk's first response and for every follow-up response alike
GetBatchYield(g, response) ==
    [g EXCEPT !.pc = "yielded", !.response = response,
              !.delivered = g.delivered \o [i \in 1..Len(response.Responses) |->
                                              _db_item_to_object(response.Responses[i])],
              !.received = g.received \o response.Responses]

\* the next chunk's request, or the end of the generator
GetBatchNextChunk(g) ==
    IF g.batch_number < Len(g.batches)
    THEN [g EXCEPT !.pc = "batch_get_item", !.batch_number = g.batch_number + 1,
                   !.keys = BatchKeys(g.batches[g.batch_number + 1]), !.attempts = 1]
    ELSE [g EXCEPT !.pc = "done"]

\* get_batch that goes on to the next chunk whatever the response reported
GetBatchResumeNoFollowUp(g) == GetBatchNextChunk(g)

\* get_batch that gives a chunk up after MaxAttempts requests
GetBatchResumeCapped(g) ==
    IF Len(g.response.UnprocessedKeys) > 0 /\ g.attempts < MaxAttempts
    THEN [g EXCEPT !.pc = "batch_get_item", !.keys = g.response.UnprocessedKeys,
                   !.attempts = g.attempts + 1]
    ELSE GetBatchNextChunk(g)

\* get_batch resumed after a yield: "while unprocessed_keys := batch_response.get(
\* 'UnprocessedKeys')" asks for the unprocessed keys again, without a limit to the
\* number of requests; otherwise the for loop goes on
GetBatchResume(g) ==
    IF Len(g.response.UnprocessedKeys) > 0
    THEN [g EXCEPT !.pc = "batch_get_item", !.keys = g.response.UnprocessedKeys,
                   !.attempts = Min(g.attempts + 1, MaxAttempts)]
    ELSE GetBatchNextChunk(g)

-----------------------------------------------------------------------------
(* The callers: two clients whose calls interleave at the store *)

Clients == {"c1", "c2"}

Other(c) == CHOOSE d \in Clients : d # c

A == Str("a")
B == Str("b")
AHashB == <<"a", "#", "b">>

\* the clock readings utc_now() can return
Clock == {1}

-----------------------------------------------------------------------------
(* The inputs the clients draw their calls from *)

ItemOne ==
    [dict_field |-> [one |-> 1], model_field |-> [test_field |-> 1, failures |-> 1],
     list_field |-> <<>>, date_field |-> 1, int_field |-> 0]

\* the content ids of the write scenarios: the list ["a", "b"] and the one-segment
\* list ["a#b"] compose the same sort key
WritePartitionIds == {IdList(<<A>>)}
PutContentIds == {IdList(<<A, B>>), IdList(<<AHashB>>)}
GetContentIds == PutContentIds \cup {IdList(<<B>>)}
UpdateContentIds == {IdList(<<A, B>>)}

\* current_version is 1 unless the caller sets it
PutContents ==
    {PartitionedContent(<<A>>, cid.list, ItemOne, version, expiry) :
        cid \in PutContentIds, version \in {1, 2},
        expiry \in {NoExpiry, Expiry(DateTime(5, 1))}}

\* what a valid command changes: nothing, or a field of each section and the expiry
Mutations ==
    {UpdateCommand(None, <<>>, <<>>, <<>>, NoExpiry),
     UpdateCommand(None, <<SetScalar("date_field", 7)>>, <<KV("int_field", 1)>>,
                   <<AppendList("list_field", <<5>>)>>, Expiry(DateTime(9, 0)))}

ValidCommands ==
    {[m EXCEPT !.current_version = cv] : m \in Mutations, cv \in {None, Some(1), Some(2)}}

\* commands that name a field the schema does not have, or increment a non-integer
InvalidCommands ==
    {UpdateCommand(None, <<SetScalar("bogus", 1)>>, <<>>, <<>>, NoExpiry),
     UpdateCommand(Some(1), <<SetScalar("date_field", 7), SetScalar(INTERNAL_OBJECT_VERSION, 9)>>,
                   <<>>, <<>>, NoExpiry),
     UpdateCommand(None, <<SetDict("model_field", <<KV("failures", 2), KV("bogus", 1)>>)>>,
                   <<>>, <<>>, NoExpiry),
     UpdateCommand(None, <<SetDict("int_field", <<KV("failures", 2)>>)>>, <<>>, <<>>, NoExpiry),
     UpdateCommand(None, <<>>, <<KV("bogus", 1)>>, <<>>, NoExpiry),
     UpdateCommand(Some(1), <<>>, <<KV("date_field", 1)>>, <<>>, NoExpiry),
     UpdateCommand(None, <<>>, <<KV("int_field", 1)>>, <<AppendNone("bogus")>>, NoExpiry)}

Commands == ValidCommands \cup InvalidCommands

\* commands that name the internal attributes in their own sections: a TTL, a
\* timestamp and a version to set, a version and a TTL to increment, a timestamp to
\* append to
InternalCommands ==
    {UpdateCommand(None, <<SetScalar(INTERNAL_TTL, 9)>>, <<>>, <<>>, NoExpiry),
     UpdateCommand(None, <<SetScalar(INTERNAL_TIMESTAMP_KEY, 7),
                           SetScalar(INTERNAL_OBJECT_VERSION, 9)>>, <<>>, <<>>, NoExpiry),
     UpdateCommand(None, <<>>, <<KV(INTERNAL_OBJECT_VERSION, 5)>>, <<>>, NoExpiry),
     UpdateCommand(None, <<>>, <<KV(INTERNAL_TTL, 1)>>, <<>>, NoExpiry),
     UpdateCommand(None, <<>>, <<>>, <<AppendList(INTERNAL_TIMESTAMP_KEY, <<5>>)>>, NoExpiry)}

\* valid commands that set a mapping: two fields of the nested model next to the
\* other sections, and an empty mapping as the first and as the second entry
DictCommands ==
    {UpdateCommand(None, <<SetDict("model_field", <<KV("test_field", 3), KV("failures", 2)>>),
                           SetScalar("date_field", 7)>>,
                   <<KV("int_field", 1)>>, <<AppendList("list_field", <<5>>)>>, NoExpiry),
     UpdateCommand(None, <<SetDict("dict_field", <<>>), SetScalar("date_field", 7)>>,
                   <<>>, <<>>, NoExpiry),
     UpdateCommand(None, <<SetScalar("date_field", 7), SetDict("dict_field", <<>>)>>,
                   <<>>, <<>>, NoExpiry)}

\* the valid commands with current_version = 0
ZeroVersionCommands == {[m EXCEPT !.current_version = Some(0)] : m \in Mutations}

UpdateInput(partition_id, content_id, command, require_exists, now) ==
    [partition_id |-> partition_id, content_id |-> content_id, command |-> command,
     require_exists |-> require_exists, now |-> now]

\* the records the list scenarios start from: four under partition ["a"], whose sort
\* keys are "c#0" < "c#1" < "c#1#0" < "c#2", and one under partition ["b"]
ItemWith(n) == [ItemOne EXCEPT !.int_field = n]

QueryContents ==
    <<PartitionedContent(<<A>>, <<Str("0")>>, ItemWith(0), 1, NoExpiry),
      PartitionedContent(<<A>>, <<Str("1")>>, ItemWith(1), 1, NoExpiry),
      PartitionedContent(<<A>>, <<Str("1"), Str("0")>>, ItemWith(0), 1, NoExpiry),
      PartitionedContent(<<A>>, <<Str("2")>>, ItemWith(1), 1, NoExpiry),
      PartitionedContent(<<B>>, <<Str("0")>>, ItemWith(0), 1, NoExpiry)>>

\* the table after put_batch(QueryContents)
RECURSIVE PutAll(_, _, _)
PutAll(tbl, contents, now) ==
    IF Len(contents) = 0 THEN tbl
    ELSE PutAll(StorePutItem(tbl, _put_content(contents[1], now)), Tail(contents), now)

QueryTable == PutAll(EmptyMap, QueryContents, 1)

ListPartitionIds == {IdList(<<A>>)}
ContentPrefixes == {IdNone, IdList(<<Str("1")>>), IdList(<<Str("9")>>)}
\* content_start and content_end: two ranges, and two pairs of equal bounds
ContentBounds ==
    {<<IdList(<<Str("0")>>), IdList(<<Str("1")>>)>>, <<IdNone, IdList(<<Str("2")>>)>>,
     <<IdNone, IdNone>>, <<IdList(<<Str("1")>>), IdList(<<Str("1")>>)>>}
\* the prefixes of delete: those of list, and one that a single record matches
DeletePrefixes == ContentPrefixes \cup {IdList(<<Str("1"), Str("0")>>)}
Limits == {None} \cup {Some(n) : n \in 0..MaxLimit}
FilterInputs ==
    {NoFilters,
     Filters(FilterCommand(<<>>, <<>>, <<>>)),
     Filters(FilterCommand(<<>>, <<KV("int_field", 0)>>, <<>>)),
     Filters(FilterCommand(<<"list_field">>, <<>>, <<KV("int_field", 0)>>)),
     Filters(FilterCommand(<<>>, <<KV("int_field", 0), KV("bogus", 1)>>, <<>>)),
     Filters(FilterCommand(<<"bogus">>, <<>>, <<>>))}

\* the key the updates of the list scenarios address: the table holds no record for it
AbsentContentIds == {IdList(<<Str("9")>>)}

UpdateInputs ==
    {UpdateInput(pid, cid, command, require_exists, now) :
        pid \in WritePartitionIds, cid \in UpdateContentIds \cup AbsentContentIds,
        command \in Commands \cup InternalCommands \cup DictCommands \cup ZeroVersionCommands,
        require_exists \in BOOLEAN, now \in Clock}

\* the contents and the faults of the scenarios in which the store fails requests
FaultContents == {PartitionedContent(<<A>>, <<A, B>>, ItemOne, 1, NoExpiry)}
FaultCommands == {command \in ValidCommands : Len(command.set_commands) > 0}
AnyFault == StoreFaults \cup {NoException}

\* the request ids of the get_batch scenarios: runs of a list of five ids, one of
\* which the table holds no record for
BatchPool ==
    <<<<IdList(<<A>>), IdList(<<Str("0")>>)>>,
      <<IdList(<<A>>), IdList(<<Str("9")>>)>>,
      <<IdList(<<A>>), IdList(<<Str("1")>>)>>,
      <<IdList(<<A>>), IdList(<<Str("1"), Str("0")>>)>>,
      <<IdList(<<B>>), IdList(<<Str("0")>>)>>>>

RequestIdLists ==
    {SubSeq(BatchPool, i, j) : i \in 1..Len(BatchPool), j \in 0..Len(BatchPool)}

\* the commands validation is applied to: every choice of a set, an increment and an
\* append section, valid or naming one or two fields the schema does not allow
SetSections ==
    {<<>>,
     <<SetScalar("date_field", 7)>>,
     <<SetScalar("bogus", 1)>>,
     <<SetScalar("bogus", 1), SetScalar("date_field", 7), SetScalar("bogus2", 1)>>,
     <<SetDict("model_field", <<KV("failures", 2), KV("bogus", 1)>>)>>,
     <<SetDict("int_field", <<KV("failures", 2)>>)>>,
     <<SetDict("dict_field", <<KV("anything", 1)>>)>>,
     <<SetDict("bogus", <<KV("failures", 2)>>)>>}
IncrementSections ==
    {<<>>,
     <<KV("int_field", 1)>>,
     <<KV("bogus3", 1)>>,
     <<KV("date_field", 1)>>,
     <<KV("date_field", 1), KV("int_field", 1), KV("bogus3", 1)>>}
AppendSections ==
    {<<>>,
     <<AppendList("list_field", <<5>>)>>,
     <<AppendNone("bogus4")>>,
     <<AppendList("list_field", <<5>>), AppendList("bogus4", <<>>)>>}

ValidationCommands ==
    {UpdateCommand(None, sets, incrs, appends, NoExpiry) :
        sets \in SetSections, incrs \in IncrementSections, appends \in AppendSections}

\* the segments the codec is applied to: strings of "a" and "#" up to MaxSegmentLen,
\* the empty string included, in lists of one to MaxSegments segments
Segments == UNION {[1..n -> {"a", "#"}] : n \in 0..MaxSegmentLen}
SegmentLists == UNION {[1..n -> Segments] : n \in 1..MaxSegments}

\* a pure function about to be applied, or applied: validate_command_for_schema to a
\* command, or the key codec (keys composed by _put_content, parsed by
\* _db_item_to_object) to a segment list
NoFunction ==
    [op |-> "none", applied |-> FALSE,
     command |-> UpdateCommand(None, <<>>, <<>>, <<>>, NoExpiry), validation |-> NotRaised,
     ids |-> <<>>, partition_ids |-> <<>>, content_ids |-> <<>>]

\* the contents the write scenarios draw their input from: two contents for one key,
\* a content whose expiry has a sub-second part, a content whose sort key extends
\* another's, and a content of a second partition
WriteA0 == PartitionedContent(<<A>>, <<Str("0")>>, ItemWith(0), 1, NoExpiry)
WriteA0Changed == PartitionedContent(<<A>>, <<Str("0")>>, ItemWith(1), 1, NoExpiry)
WriteA1 == PartitionedContent(<<A>>, <<Str("1")>>, ItemWith(1), 1, Expiry(DateTime(5, 1)))
WriteA10 == PartitionedContent(<<A>>, <<Str("1"), Str("0")>>, ItemWith(0), 1, NoExpiry)
WriteB0 == PartitionedContent(<<B>>, <<Str("0")>>, ItemWith(0), 1, NoExpiry)

\* the inputs of write: no two contents of one input have the same key
WriteInputs ==
    {<<>>, <<WriteA0>>, <<WriteA0Changed>>, <<WriteA1>>, <<WriteA10, WriteB0, WriteA0>>}

-----------------------------------------------------------------------------
(* v2/write_once.py: WriteOnceRepository.write *)

\* the sort key a content is stored under
ContentSortKey(content) == _content_id(IdList(content.content_ids))

\* "contents.sort()": the order of PartitionedContent is that of the sort key
\* (the layer takes the least and the greatest sort key of a partition's inputs)
RECURSIVE SortContents(_)
SortContents(contents) ==
    IF Len(contents) = 0 THEN <<>>
    ELSE LET least == CHOOSE i \in 1..Len(contents) :
                          \A j \in 1..Len(contents) :
                              \/ StrLess(ContentSortKey(contents[i]), ContentSortKey(contents[j]))
                              \/ (ContentSortKey(contents[i]) = ContentSortKey(contents[j]) /\ i <= j)
         IN  <<contents[least]>>
             \o SortContents([k \in 1..(Len(contents) - 1) |->
                                 IF k < least THEN contents[k] ELSE contents[k + 1]])

\* "partitioned_lists[tuple(input_content.partition_ids)].append(input_content)": the
\* partitions in the order in which the input first names them, each with its contents
\* in input order
RECURSIVE PartitionedLists(_, _)
PartitionedLists(lists, input_contents) ==
    IF Len(input_contents) = 0 THEN lists
    ELSE LET content == input_contents[1]
             known == {i \in 1..Len(lists) : lists[i].partition_key = content.partition_ids}
             next == IF known = {}
                     THEN Append(lists, [partition_key |-> content.partition_ids,
                                         contents |-> <<content>>])
                     ELSE [lists EXCEPT ![CHOOSE i \in known : TRUE].contents =
                                            Append(@, content)]
         IN  PartitionedLists(next, Tail(input_contents))

\* the contents self._async_repo.list_between(list(partition_key), content_start,
\* content_end) yields in all: every record the query matches, parsed
ExistingContents(tbl, partition_ids, content_start, content_end) ==
    LET start == list_between(IdList(partition_ids), IdList(content_start),
                              IdList(content_end), TRUE, None, NoFilters)
        keys == Remaining(tbl, start.query_kwargs)
    IN  [i \in 1..Len(keys) |-> _db_item_to_object(tbl[keys[i]])]

\* "existing_map.get(tuple(input_content.content_ids))": of the records with these
\* content_ids the one the comprehension met last, or None
ExistingItem(existing, content_ids) ==
    LET met == {i \in 1..Len(existing) : existing[i].content_ids = content_ids}
    IN  IF met = {} THEN <<>>
        ELSE <<existing[CHOOSE i \in met : \A j \in met : j <= i]>>

\* write that takes an input for new only when no record has its content_ids
NewContentsMissingOnly(existing, contents) ==
    SelectSeq(contents, LAMBDA content : ExistingItem(existing, content.content_ids) = <<>>)

\* "if existing_item is None or existing_item != input_content:
\*      new_contents.append(input_content)"
NewContents(existing, contents) ==
    SelectSeq(contents,
              LAMBDA content : ExistingItem(existing, content.content_ids) # <<content>>)

\* a write invocation: the partitions of its input, the one whose range query is next,
\* what it has found new, and what it did to the store; before, disturbed, concurrent
\* and repeat are history (the table at the call, whether another writer has put
\* since, whether another write was under way at the call, and whether the call
\* repeats the one before it)
NoWrite ==
    [pc |-> "idle", input_contents |-> <<>>, partitioned_lists |-> <<>>, partition |-> 0,
     new_contents |-> <<>>, list_between_calls |-> 0,
     put_batch_calls |-> 0, put |-> <<>>, before |-> EmptyMap, disturbed |-> FALSE,
     concurrent |-> FALSE, repeat |-> FALSE]

\* write up to its first await: the input is grouped, and empty input returns at once
write(input_contents) ==
    LET partitioned_lists == PartitionedLists(<<>>, input_contents)
    IN  [NoWrite EXCEPT !.pc = IF Len(partitioned_lists) = 0 THEN "done" ELSE "list_between",
                        !.input_contents = input_contents,
                        !.partitioned_lists = partitioned_lists,
                        !.partition = IF Len(partitioned_lists) = 0 THEN 0 ELSE 1]

\* write from the answer to a partition's range query on: the inputs that are new are
\* collected, and after the last partition put_batch is called when there are any
WriteAfterList(w, tbl) ==
    LET contents == SortContents(w.partitioned_lists[w.partition].contents)
        existing == ExistingContents(tbl, w.partitioned_lists[w.partition].partition_key,
                                     contents[1].content_ids,
                                     contents[Len(contents)].content_ids)
        new_contents == w.new_contents \o NewContents(existing, contents)
        last == w.partition = Len(w.partitioned_lists)
    IN  [w EXCEPT !.new_contents = new_contents,
                  !.list_between_calls = @ + 1,
                  !.partition = IF last THEN @ ELSE @ + 1,
                  !.pc = IF ~last THEN "list_between"
                         ELSE IF Len(new_contents) > 0 THEN "put_batch" ELSE "done"]

\* what DynamoRepository.update does with each input before its await, computed once
UpdateOf ==
    [i \in UpdateInputs |->
        update(i.partition_id, i.content_id, i.command, i.require_exists, i.now)]

\* the call that returned or raised last; an update's outcome keeps what it asked for
Outcome(op, status, partition_id, content_id, current_version, require_exists) ==
    [op |-> op, status |-> status, pid |-> partition_id, cid |-> content_id,
     current_version |-> current_version, require_exists |-> require_exists,
     exception |-> NoException]

NoOutcome == Outcome("none", "", IdNone, IdNone, None, FALSE)

\* command and now are history: the command as the caller passed it and the clock
\* reading build_update_args_for_command took
NoReq == [key |-> <<>>, args |-> <<>>, pid |-> IdNone, cid |-> IdNone,
          current_version |-> None, require_exists |-> FALSE,
          command |-> UpdateCommand(None, <<>>, <<>>, <<>>, NoExpiry), now |-> 0]

\* two updates in flight together: the key, its record when the second was issued,
\* their common current_version, their requests and how each ended
NoRace == [active |-> FALSE, key |-> <<>>, before |-> NoItem, current_version |-> 0,
           args |-> <<>>, status |-> <<>>]

\* the version counter a key's record holds; no record, or no counter, counts as 0
Version(tbl, key) == IfNotExists(StoredItem(tbl, key), INTERNAL_OBJECT_VERSION, 0)

\* DynamoRepository.put: one put_item
Put(c, content, now) ==
    /\ pc[c] = "idle"
    /\ LET put_item == _put_content(content, now)
           key == <<put_item[partition_key], put_item[sort_key]>>
       IN  /\ table' = StorePutItem(table, put_item)
           /\ lastput' = MapPut(lastput, key, content)
    /\ outcome' = Outcome("put", "ok", IdList(content.partition_ids),
                          IdList(content.content_ids), None, FALSE)
    /\ result' = <<>>
    /\ race' = NoRace
    /\ UNCHANGED <<pc, req, qs, gb, fn, wo, ls>>

\* DynamoRepository.get: one get_item
Get(c, partition_id, content_id) ==
    /\ pc[c] = "idle"
    /\ LET response == get(table, partition_id, content_id)
       IN  /\ result' = response.content
           /\ outcome' = Outcome("get", IF response.raised = "" THEN "ok" ELSE response.raised,
                                 partition_id, content_id, None, FALSE)
    /\ race' = NoRace
    /\ UNCHANGED <<table, pc, req, lastput, qs, gb, fn, wo, ls>>

\* the two calls are in flight together, with the same truthy current_version, which
\* is the version the key's record holds
RaceBegins(c, key, command) ==
    LET d == Other(c)
    IN  /\ pc[d] = "update_item"
        /\ req[d].key = key
        /\ Truthy(command.current_version)
        /\ req[d].current_version = command.current_version
        /\ KeyOf(key) \in DOMAIN table
        /\ Version(table, KeyOf(key)) = command.current_version.v

\* DynamoRepository.update, up to the await of update_item: a command that fails
\* validation raises and sends nothing
UpdateCall(c, partition_id, content_id, command, require_exists, now) ==
    /\ pc[c] = "idle"
    /\ qs.pc = "idle"
    /\ LET call == UpdateOf[UpdateInput(partition_id, content_id, command, require_exists, now)]
       IN  /\ call.send => Version(table, KeyOf(call.key)) < MaxVersion
           /\ IF call.send
              THEN /\ pc' = [pc EXCEPT ![c] = "update_item"]
                   /\ req' = [req EXCEPT ![c] = [key |-> call.key, args |-> call.args,
                                                 pid |-> partition_id, cid |-> content_id,
                                                 current_version |-> command.current_version,
                                                 require_exists |-> require_exists,
                                                 command |-> command, now |-> now]]
                   /\ race' = IF RaceBegins(c, call.key, command)
                              THEN [active |-> TRUE, key |-> KeyOf(call.key),
                                    before |-> table[KeyOf(call.key)],
                                    current_version |-> command.current_version.v,
                                    args |-> [d \in Clients |->
                                                 IF d = c THEN call.args ELSE req[d].args],
                                    status |-> [d \in Clients |-> "pending"]]
                              ELSE NoRace
                   /\ UNCHANGED <<outcome, result>>
              ELSE /\ outcome' = Outcome("update", call.raised, partition_id, content_id,
                                          command.current_version, require_exists)
                   /\ result' = <<>>
                   /\ race' = NoRace
                   /\ UNCHANGED <<pc, req>>
    /\ UNCHANGED <<table, lastput, qs, gb, fn, wo, ls>>

\* the store serves the update_item in flight, or fails it with fault;
\* execute_update_item ends the call
UpdateItem(c, fault) ==
    /\ pc[c] = "update_item"
    /\ LET done == execute_update_item(table, req[c].key, req[c].args, fault)
           status == IF done.raised = "" THEN "ok" ELSE done.raised
       IN  /\ table' = done.table
           /\ outcome' = [Outcome("update", status, req[c].pid, req[c].cid,
                                  req[c].current_version, req[c].require_exists)
                              EXCEPT !.exception = done.exception]
           /\ lastput' = IF done.raised = "" THEN MapDel(lastput, KeyOf(req[c].key)) ELSE lastput
           /\ race' = IF race.active THEN [race EXCEPT !.status[c] = status] ELSE race
    /\ result' = <<>>
    /\ pc' = [pc EXCEPT ![c] = "idle"]
    /\ req' = [req EXCEPT ![c] = NoReq]
    /\ UNCHANGED <<qs, gb, fn, wo, ls>>

\* no call is under way
Quiet == qs.pc = "idle" /\ \A c \in Clients : pc[c] = "idle"

\* a call of list
ListCall(partition_id, content_prefix, sort_ascending, limit, filters) ==
    /\ Quiet
    /\ qs' = Started(ListInvocation("list", partition_id, content_prefix, content_prefix,
                                    sort_ascending, limit, filters),
                     list(partition_id, content_prefix, sort_ascending, limit, filters))
    /\ UNCHANGED <<table, pc, req, outcome, result, race, lastput, gb, fn, wo, ls>>

\* a call of list_between
ListBetweenCall(partition_id, content_start, content_end, sort_ascending, limit, filters) ==
    /\ Quiet
    /\ qs' = Started(ListInvocation("list_between", partition_id, content_start, content_end,
                                    sort_ascending, limit, filters),
                     list_between(partition_id, content_start, content_end,
                                  sort_ascending, limit, filters))
    /\ UNCHANGED <<table, pc, req, outcome, result, race, lastput, gb, fn, wo, ls>>

\* a call of delete
DeleteCall(partition_id, content_prefix) ==
    /\ Quiet
    /\ qs' = [Started(ListInvocation("delete", partition_id, content_prefix, content_prefix,
                                     TRUE, None, NoFilters),
                      delete(partition_id, content_prefix))
                 EXCEPT !.before = table]
    /\ UNCHANGED <<table, pc, req, outcome, result, race, lastput, gb, fn, wo, ls>>

\* the store answers the request in flight and _query_all_data runs to its next
\* request or to its end
QueryPage ==
    /\ qs.pc = "query"
    /\ qs.call.op # "delete"
    /\ \E response \in StoreQuery(table, qs.query_kwargs) : qs' = AfterResponse(qs, response)
    /\ UNCHANGED <<table, pc, req, outcome, result, race, lastput, gb, fn, wo, ls>>

\* the store answers the request of a delete in flight; the page's records are handed
\* to the batch writer before _query_all_data runs on
DeletePage ==
    /\ qs.pc = "query"
    /\ qs.call.op = "delete"
    /\ \E response \in StoreQuery(table, qs.query_kwargs) :
           LET after == DeleteAfterResponse(qs, table, response)
           IN  qs' = after.qs /\ table' = after.table
    /\ UNCHANGED <<pc, req, outcome, result, race, lastput, gb, fn, wo, ls>>

\* the consumer is through with the invocation that ended
Consumed ==
    /\ qs.pc = "done"
    /\ qs' = NoQuery
    /\ UNCHANGED <<table, pc, req, outcome, result, race, lastput, gb, fn, wo, ls>>

\* _query_all_data whose cursor is an attribute of the repository instance: a
\* response's LastEvaluatedKey becomes the cursor of every invocation under way
PageReceivedSharedCursor(l, c, response) ==
    LET after == AfterResponse(l[c], response)
    IN  [d \in Clients |->
            IF d = c THEN after
            ELSE IF l[d].pc = "query" /\ after.pc = "query"
            THEN [l[d] EXCEPT !.query_kwargs.HasExclusiveStartKey = TRUE,
                              !.query_kwargs.ExclusiveStartKey = response.LastEvaluatedKey]
            ELSE l[d]]

\* the invocations after client c's invocation received a response: query_kwargs and
\* total_count are locals of the one _query_all_data generator, the other
\* invocations are as they were
PageReceived(l, c, response) == [l EXCEPT ![c] = AfterResponse(l[c], response)]

\* what an invocation does up to its first request
StartOf(call) ==
    IF call.op = "list"
    THEN list(call.partition_id, call.content_start, call.sort_ascending, call.limit,
              call.filters)
    ELSE list_between(call.partition_id, call.content_start, call.content_end,
                      call.sort_ascending, call.limit, call.filters)

\* client c calls list or list_between on the repository instance the clients share
ListsCall(c, call) ==
    /\ ls[c].pc = "idle"
    /\ ls' = [ls EXCEPT ![c] = Started(call, StartOf(call))]
    /\ UNCHANGED <<table, pc, req, outcome, result, race, lastput, qs, gb, fn, wo>>

\* the store answers the request client c's invocation has in flight
ListsPage(c) ==
    /\ ls[c].pc = "query"
    /\ \E response \in StoreQuery(table, ls[c].query_kwargs) :
           ls' = PageReceived(ls, c, response)
    /\ UNCHANGED <<table, pc, req, outcome, result, race, lastput, qs, gb, fn, wo>>

\* a call of get_batch, up to its first request
GetBatchCall(request_ids) ==
    /\ gb.pc = "idle"
    /\ gb' = get_batch(request_ids)
    /\ UNCHANGED <<table, pc, req, outcome, result, race, lastput, qs, fn, wo, ls>>

\* the store answers the batch_get_item in flight and get_batch yields a BatchResponse
BatchGetItem ==
    /\ gb.pc = "batch_get_item"
    /\ \E response \in StoreBatchGetItem(table, gb.keys) : gb' = GetBatchYield(gb, response)
    /\ UNCHANGED <<table, pc, req, outcome, result, race, lastput, qs, fn, wo, ls>>

\* the store answers the batch_get_item in flight and reports no unprocessed key
BatchGetItemComplete ==
    /\ gb.pc = "batch_get_item"
    /\ gb' = GetBatchYield(gb, BatchGetResponse(table, gb.keys, 1..Len(gb.keys)))
    /\ UNCHANGED <<table, pc, req, outcome, result, race, lastput, qs, fn, wo, ls>>

\* the consumer asks for the next BatchResponse: get_batch runs to its next request
\* or to its end
GetBatchNext ==
    /\ gb.pc = "yielded"
    /\ gb' = GetBatchResume(gb)
    /\ UNCHANGED <<table, pc, req, outcome, result, race, lastput, qs, fn, wo, ls>>

\* the consumer is through with the get_batch that ended
GetBatchConsumed ==
    /\ gb.pc = "done"
    /\ gb' = NoBatch
    /\ UNCHANGED <<table, pc, req, outcome, result, race, lastput, qs, fn, wo, ls>>

\* validate_command_for_schema(self._item_schema, command)
Validate ==
    /\ fn.op = "validate"
    /\ ~fn.applied
    /\ fn' = [fn EXCEPT !.applied = TRUE,
                        !.validation = validate_command_for_schema(ExampleSchema, fn.command)]
    /\ UNCHANGED <<table, pc, req, outcome, result, race, lastput, qs, gb, wo, ls>>

\* the item _put_content composes for a content with the segment list as both ids,
\* read back by _db_item_to_object
ComposeAndParse ==
    /\ fn.op = "codec"
    /\ ~fn.applied
    /\ \E now \in Clock :
           LET content == PartitionedContent(fn.ids, fn.ids, ItemOne, 1, NoExpiry)
               parsed == _db_item_to_object(_put_content(content, now))
           IN  fn' = [fn EXCEPT !.applied = TRUE,
                               !.partition_ids = parsed.partition_ids,
                               !.content_ids = parsed.content_ids]
    /\ UNCHANGED <<table, pc, req, outcome, result, race, lastput, qs, gb, wo, ls>>

\* another write is between its call and its return
Writing(c) == wo[c].pc \in {"list_between", "put_batch"}

\* a call of write: the input is grouped, and the first range query is sent unless
\* the input is empty
WriteCall(c, input_contents) ==
    /\ wo[c].pc = "idle"
    /\ wo' = [d \in Clients |->
                 IF d = c
                 THEN [write(input_contents) EXCEPT !.before = table,
                                                    !.concurrent = Writing(Other(c))]
                 ELSE [wo[d] EXCEPT !.concurrent = @ \/ Writing(d)]]
    /\ UNCHANGED <<table, pc, req, outcome, result, race, lastput, qs, gb, fn, ls>>

\* write is called again with the input of the call that has just returned
WriteAgain(c) ==
    /\ wo[c].pc = "done"
    /\ ~wo[c].repeat
    /\ wo' = [d \in Clients |->
                 IF d = c
                 THEN [write(wo[c].input_contents) EXCEPT !.before = table,
                                                          !.repeat = TRUE,
                                                          !.disturbed = wo[c].disturbed,
                                                          !.concurrent = Writing(Other(c))]
                 ELSE [wo[d] EXCEPT !.concurrent = @ \/ Writing(d)]]
    /\ UNCHANGED <<table, pc, req, outcome, result, race, lastput, qs, gb, fn, ls>>

\* the store answers the range query of a partition (in one page), and write goes on to
\* the next partition, to put_batch or to its return
WriteListBetween(c) ==
    /\ wo[c].pc = "list_between"
    /\ wo' = [wo EXCEPT ![c] = WriteAfterList(wo[c], table)]
    /\ UNCHANGED <<table, pc, req, outcome, result, race, lastput, qs, gb, fn, ls>>

\* "await self._async_repo.put_batch(new_contents)" (one batch of the writer), and the
\* return of new_contents, which a write that calls no put_batch returns as well
WritePutBatch(c, now) ==
    /\ wo[c].pc = "put_batch"
    /\ table' = PutAll(table, wo[c].new_contents, now)
    /\ wo' = [d \in Clients |->
                 IF d = c
                 THEN [wo[c] EXCEPT !.pc = "done", !.put_batch_calls = @ + 1,
                                    !.put = wo[c].new_contents]
                 ELSE [wo[d] EXCEPT !.disturbed = @ \/ wo[d].pc # "idle"]]
    /\ UNCHANGED <<pc, req, outcome, result, race, lastput, qs, gb, fn, ls>>

\* the caller is through with the list write returned
WriteReturned(c) ==
    /\ wo[c].pc = "done"
    /\ wo' = [wo EXCEPT ![c] = NoWrite]
    /\ UNCHANGED <<table, pc, req, outcome, result, race, lastput, qs, gb, fn, ls>>

InitWrite ==
    /\ table = EmptyMap
    /\ pc = [c \in Clients |-> "idle"]
    /\ req = [c \in Clients |-> NoReq]
    /\ outcome = NoOutcome
    /\ result = <<>>
    /\ race = NoRace
    /\ lastput = EmptyMap
    /\ qs = NoQuery
    /\ gb = NoBatch
    /\ wo = [c \in Clients |-> NoWrite]
    /\ ls = [c \in Clients |-> NoQuery]
    /\ fn = NoFunction

NextWrite ==
    \E c \in Clients :
        \/ \E content \in PutContents, now \in Clock : Put(c, content, now)
        \/ \E pid \in WritePartitionIds, cid \in GetContentIds : Get(c, pid, cid)
        \/ \E pid \in WritePartitionIds, cid \in UpdateContentIds, command \in ValidCommands,
              require_exists \in BOOLEAN, now \in Clock :
              UpdateCall(c, pid, cid, command, require_exists, now)
        \/ UpdateItem(c, NoException)

SpecWrite == InitWrite /\ [][NextWrite]_vars

\* list invocations over a table that holds QueryContents, and updates that either
\* fail validation or require a record the table does not hold
InitQuery ==
    /\ table = QueryTable
    /\ pc = [c \in Clients |-> "idle"]
    /\ req = [c \in Clients |-> NoReq]
    /\ outcome = NoOutcome
    /\ result = <<>>
    /\ race = NoRace
    /\ lastput = EmptyMap
    /\ qs = NoQuery
    /\ gb = NoBatch
    /\ wo = [c \in Clients |-> NoWrite]
    /\ ls = [c \in Clients |-> NoQuery]
    /\ fn = NoFunction

NextQuery ==
    \/ \E pid \in ListPartitionIds, prefix \in ContentPrefixes, sort_ascending \in BOOLEAN,
          limit \in Limits, filters \in FilterInputs :
          ListCall(pid, prefix, sort_ascending, limit, filters)
    \/ \E pid \in ListPartitionIds, bounds \in ContentBounds, sort_ascending \in BOOLEAN,
          limit \in Limits, filters \in FilterInputs :
          ListBetweenCall(pid, bounds[1], bounds[2], sort_ascending, limit, filters)
    \/ \E pid \in ListPartitionIds, prefix \in DeletePrefixes : DeleteCall(pid, prefix)
    \/ QueryPage
    \/ DeletePage
    \/ Consumed
    \/ \E c \in Clients, pid \in WritePartitionIds, cid \in AbsentContentIds,
          command \in InvalidCommands, require_exists \in BOOLEAN, now \in Clock :
          UpdateCall(c, pid, cid, command, require_exists, now)
    \/ \E c \in Clients, pid \in WritePartitionIds, cid \in AbsentContentIds,
          command \in ValidCommands, now \in Clock :
          UpdateCall(c, pid, cid, command, TRUE, now)
    \/ \E c \in Clients : UpdateItem(c, NoException)

SpecQuery == InitQuery /\ [][NextQuery]_vars

\* get_batch invocations over the table that holds QueryContents
NextBatch ==
    \/ \E request_ids \in RequestIdLists : GetBatchCall(request_ids)
    \/ BatchGetItem
    \/ GetBatchNext
    \/ GetBatchConsumed

SpecBatch == InitQuery /\ [][NextBatch]_vars

\* the same, with a consumer that goes on asking and a store that, asked again and
\* again, in the end answers with no unprocessed key
SpecBatchLive ==
    /\ InitQuery
    /\ [][NextBatch]_vars
    /\ WF_vars(GetBatchNext)
    /\ SF_vars(BatchGetItemComplete)

\* updates of one record, with a store that can fail any request
NextFault ==
    \E c \in Clients :
        \/ \E content \in FaultContents, now \in Clock : Put(c, content, now)
        \/ \E pid \in WritePartitionIds, cid \in UpdateContentIds, command \in FaultCommands,
              require_exists \in BOOLEAN, now \in Clock :
              UpdateCall(c, pid, cid, command, require_exists, now)
        \/ \E fault \in AnyFault : UpdateItem(c, fault)

SpecFault == InitWrite /\ [][NextFault]_vars

\* the contents the records of the command scenarios are put from: with and
\* without a TTL
CommandContents ==
    {PartitionedContent(<<A>>, <<A, B>>, ItemOne, 1, expiry) :
        expiry \in {NoExpiry, Expiry(DateTime(5, 1))}}

\* puts, and updates whose commands are valid, set mappings or name the internal
\* attributes; the clients call one after the other
NextCommand ==
    \E c \in Clients :
        \/ \E content \in CommandContents, now \in Clock : Put(c, content, now)
        \/ \E pid \in WritePartitionIds, cid \in UpdateContentIds,
              command \in ValidCommands \cup InternalCommands \cup DictCommands
                              \cup ZeroVersionCommands,
              require_exists \in BOOLEAN, now \in Clock :
              /\ pc[Other(c)] = "idle"
              /\ UpdateCall(c, pid, cid, command, require_exists, now)
        \/ UpdateItem(c, NoException)

SpecCommand == InitWrite /\ [][NextCommand]_vars

\* the pure functions, each applied to one input
InitPure ==
    /\ table = EmptyMap
    /\ pc = [c \in Clients |-> "idle"]
    /\ req = [c \in Clients |-> NoReq]
    /\ outcome = NoOutcome
    /\ result = <<>>
    /\ race = NoRace
    /\ lastput = EmptyMap
    /\ qs = NoQuery
    /\ gb = NoBatch
    /\ wo = [c \in Clients |-> NoWrite]
    /\ ls = [c \in Clients |-> NoQuery]
    /\ fn \in {[NoFunction EXCEPT !.op = "validate", !.command = command] :
                  command \in ValidationCommands}
              \cup {[NoFunction EXCEPT !.op = "codec", !.ids = ids] : ids \in SegmentLists}

NextPure ==
    \/ Validate
    \/ ComposeAndParse

SpecPure == InitPure /\ [][NextPure]_vars

\* two clients of one WriteOnceRepository over an empty table
NextWriteOnce ==
    \E c \in Clients :
        \/ \E input_contents \in WriteInputs : WriteCall(c, input_contents)
        \/ WriteAgain(c)
        \/ WriteListBetween(c)
        \/ \E now \in Clock : WritePutBatch(c, now)
        \/ WriteReturned(c)

SpecWriteOnce == InitWrite /\ [][NextWriteOnce]_vars

\* the invocations the two clients run side by side: lists of the whole partition in
\* both directions, one with a limit, a list of a prefix, and a filtered range
ListsInputs ==
    {ListInvocation("list", IdList(<<A>>), IdNone, IdNone, TRUE, None, NoFilters),
     ListInvocation("list", IdList(<<A>>), IdNone, IdNone, FALSE, Some(2), NoFilters),
     ListInvocation("list", IdList(<<A>>), IdList(<<Str("1")>>), IdList(<<Str("1")>>), TRUE,
                    None, NoFilters),
     ListInvocation("list_between", IdList(<<A>>), IdList(<<Str("0")>>), IdList(<<Str("2")>>),
                    TRUE, None, Filters(FilterCommand(<<>>, <<KV("int_field", 0)>>, <<>>)))}

\* two clients list the table that holds QueryContents, their pages interleaved
NextLists ==
    \E c \in Clients :
        \/ \E call \in ListsInputs : ListsCall(c, call)
        \/ ListsPage(c)

SpecLists == InitQuery /\ [][NextLists]_vars

-----------------------------------------------------------------------------
(* Optimistic concurrency: the properties of update *)

\* c's update_item is served in this step
Served(c) == pc[c] = "update_item" /\ pc'[c] = "idle"

RaceOver == race.active /\ \A c \in Clients : race.status[c] # "pending"

\* the record a racing client's request makes of the record the race began with
RaceApplied(c) ==
    ApplyExpression(race.before, race.args[c].update_expression,
                    race.args[c].attribute_names, race.args[c].attribute_values)

\* C1: when two updates of one key are in flight together, both with the current_version
\* the record holds, then once both have been served exactly one has succeeded and the
\* other has raised RequestObjectStateError, the stored version is current_version + 1
\* and the record is the one the winner's request alone makes of the record before.
C1_ExactlyOneWins ==
    RaceOver =>
        \E w \in Clients :
            /\ race.status[w] = "ok"
            /\ race.status[Other(w)] = "RequestObjectStateError"
            /\ Version(table, race.key) = race.current_version + 1
            /\ table[race.key] = RaceApplied(w)

\* a finished race whose two requests differ, won by the client that called second
C1_Witness ==
    /\ RaceOver
    /\ race.status["c2"] = "ok"
    /\ Len(race.args["c1"].update_expression) # Len(race.args["c2"].update_expression)
    /\ Version(table, race.key) = race.current_version + 1

\* C2: every update_item that succeeds leaves the stored version one above the version
\* the store held when it served the request (no record counting as 0), and when the
\* command carried a truthy current_version the stored version is current_version + 1.
C2_VersionIncrements ==
    [][\A c \in Clients :
          Served(c) /\ outcome'.status = "ok" =>
              LET key == KeyOf(req[c].key)
              IN  /\ Version(table', key) = Version(table, key) + 1
                  /\ Truthy(req[c].current_version) =>
                         Version(table', key) = req[c].current_version.v + 1]_vars

\* an update with current_version = 1 has succeeded on a record put at version 1
C2_Witness ==
    /\ outcome.op = "update"
    /\ outcome.status = "ok"
    /\ outcome.current_version = Some(1)
    /\ Version(table, <<_partition_id(outcome.pid), _content_id(outcome.cid)>>) = 2

\* C3: an update_item whose command carries a truthy current_version that differs from
\* the stored version raises RequestObjectStateError and leaves the table as it was.
C3_MismatchRejected ==
    [][\A c \in Clients :
          /\ Served(c)
          /\ Truthy(req[c].current_version)
          /\ Version(table, KeyOf(req[c].key)) # req[c].current_version.v
          => /\ outcome'.status = "RequestObjectStateError"
             /\ table' = table]_vars

\* the update with current_version = 1 of a record that holds version 2 has been
\* rejected, and the record still holds version 2
C3_Witness ==
    /\ outcome.op = "update"
    /\ outcome.status = "RequestObjectStateError"
    /\ outcome.current_version = Some(1)
    /\ <<_partition_id(outcome.pid), _content_id(outcome.cid)>> \in DOMAIN table
    /\ Version(table, <<_partition_id(outcome.pid), _content_id(outcome.cid)>>) = 2

-----------------------------------------------------------------------------
(* put followed by get *)

\* the key the last call addressed
OutcomeKey == <<_partition_id(outcome.pid), _content_id(outcome.cid)>>

\* the last call was a get with the ids of the content last put under its key, put
\* with the default current_version and not updated since
GotWhatWasPut ==
    /\ outcome.op = "get"
    /\ OutcomeKey \in DOMAIN lastput
    /\ lastput[OutcomeKey].current_version = 1
    /\ outcome.pid = IdList(lastput[OutcomeKey].partition_ids)
    /\ outcome.cid = IdList(lastput[OutcomeKey].content_ids)

\* C6: a get with the ids of a content that was put (default current_version, no write
\* since) returns one record with the content's partition_ids, content_ids and item and
\* with version 1; a get of a key that holds no record returns an empty response.
C6_PutGetRoundTrip ==
    /\ GotWhatWasPut =>
           /\ outcome.status = "ok"
           /\ Len(result) = 1
           /\ result[1].partition_ids = lastput[OutcomeKey].partition_ids
           /\ result[1].content_ids = lastput[OutcomeKey].content_ids
           /\ result[1].item = lastput[OutcomeKey].item
           /\ result[1].current_version = 1
    /\ outcome.op = "get" /\ OutcomeKey \notin DOMAIN table =>
           outcome.status = "ok" /\ result = <<>>

-----------------------------------------------------------------------------
(* Validation comes before any request *)

SchemaProps == DOMAIN ExampleSchema.properties

\* the command names a field the item schema does not have: a set, increment or append
\* key, or a key set inside a field whose type is a nested model
UnknownField(command) ==
    \/ \E i \in 1..Len(command.set_commands) :
           LET e == command.set_commands[i]
           IN  \/ e.k \notin SchemaProps
               \/ /\ e.k \in SchemaProps
                  /\ e.isdict
                  /\ ExampleSchema.properties[e.k].ref # ""
                  /\ \E j \in 1..Len(e.d) :
                         e.d[j].k \notin
                             ExampleSchema.definitions[ExampleSchema.properties[e.k].ref].properties
    \/ \E i \in 1..Len(command.increment_attrs) : command.increment_attrs[i].k \notin SchemaProps
    \/ \E i \in 1..Len(command.append_attrs) : command.append_attrs[i].k \notin SchemaProps

\* the command increments a field of the schema that is not an integer
NonIntegerIncrement(command) ==
    \E i \in 1..Len(command.increment_attrs) :
        /\ command.increment_attrs[i].k \in SchemaProps
        /\ ExampleSchema.properties[command.increment_attrs[i].k].type # "integer"

FiltersUnknownField(filters) ==
    \/ \E i \in 1..Len(filters.not_exists) : filters.not_exists[i] \notin SchemaProps
    \/ \E i \in 1..Len(filters.equals) : filters.equals[i].k \notin SchemaProps
    \/ \E i \in 1..Len(filters.not_equals) : filters.not_equals[i].k \notin SchemaProps

\* C5: a call of update whose command names a field the schema does not have, or
\* increments a non-integer field, raises the validation error (ValueError) and sends no
\* update_item; a call of list whose filters name a field the schema does not have
\* raises it and sends no query.
C5_ValidationBeforeRequest ==
    [][/\ \A c \in Clients, pid \in WritePartitionIds, cid \in AbsentContentIds,
             command \in Commands, require_exists \in BOOLEAN, now \in Clock :
             /\ UpdateCall(c, pid, cid, command, require_exists, now)
             /\ UnknownField(command) \/ NonIntegerIncrement(command)
             => /\ outcome'.op = "update"
                /\ outcome'.status = "ValueError"
                /\ pc' = pc
                /\ req' = req
                /\ table' = table
       /\ \A pid \in ListPartitionIds, prefix \in ContentPrefixes, sort_ascending \in BOOLEAN,
             limit \in Limits, filters \in FilterInputs :
             /\ ListCall(pid, prefix, sort_ascending, limit, filters)
             /\ filters.some
             /\ FiltersUnknownField(filters.v)
             => /\ qs'.pc = "done"
                /\ qs'.raised = "ValueError"
                /\ qs'.requests = <<>>
                /\ table' = table]_vars

\* an update has raised the validation error, and after it a list call with filters
\* that name an unknown field has raised it too, without a request
C5_Witness ==
    /\ outcome.op = "update"
    /\ outcome.status = "ValueError"
    /\ \A c \in Clients : pc[c] = "idle"
    /\ qs.call.op = "list"
    /\ FiltersUnknownField(qs.call.filters.v)
    /\ qs.raised = "ValueError"
    /\ qs.requests = <<>>

-----------------------------------------------------------------------------
(* Pagination and the limit *)

\* the sum of Count over the first n responses
RECURSIVE CountSum(_, _)
CountSum(responses, n) == IF n = 0 THEN 0 ELSE CountSum(responses, n - 1) + responses[n].Count

\* the invocation has ended without raising
Ended == qs.pc = "done" /\ qs.raised = ""

\* the key condition the caller's invocation stands for; list_between with equal
\* bounds stands for the prefix query of list
InvocationCondition(call) ==
    IF call.op = "list" \/ OrEmpty(call.content_start) = OrEmpty(call.content_end)
    THEN BeginsWith(_partition_id(OrEmpty(call.partition_id)),
                    _content_id(OrEmpty(call.content_start)))
    ELSE Between(_partition_id(OrEmpty(call.partition_id)),
                 _content_id(OrEmpty(call.content_start)),
                 _content_id(OrEmpty(call.content_end)))

\* the records that match the caller's invocation, in the sort order it asked for
MatchingRecords(call) ==
    LET keys == SortKeys({k \in DOMAIN table : KeyConditionHolds(InvocationCondition(call), k)},
                         call.sort_ascending)
        passed == IF call.filters.some
                  THEN Filtered(table, keys, build_filter_expression(call.filters.v))
                  ELSE keys
    IN  [i \in 1..Len(passed) |-> _db_item_to_object(table[passed[i]])]

\* the store evaluated as many items for every page as the forwarded Limit allowed
PagesFilled ==
    \A i \in 1..Len(qs.responses) :
        qs.requests[i].HasLimit =>
            qs.responses[i].ScannedCount =
                Min(qs.requests[i].Limit, Len(Remaining(table, qs.requests[i])))

\* C7: when no filter is given and the store fills every page up to the forwarded
\* Limit, a list or list_between invocation with limit = n yields exactly the first
\* min(n, number of matching records) matching records, in the requested sort order.
C7_LimitYieldsFirstN ==
    /\ Ended
    /\ ~qs.call.filters.some
    /\ qs.call.limit.some
    /\ PagesFilled
    => qs.contents = SubSeq(MatchingRecords(qs.call), 1,
                            Min(qs.call.limit.v, Len(MatchingRecords(qs.call))))

\* the first response whose running count reaches the limit; 0 when none does
FirstBoundary(responses, limit) ==
    IF \E i \in 1..Len(responses) : CountSum(responses, i) >= limit
    THEN CHOOSE i \in 1..Len(responses) :
             /\ CountSum(responses, i) >= limit
             /\ \A j \in 1..(i - 1) : CountSum(responses, j) < limit
    ELSE 0

\* C8: whatever the limit and the sizes of the pages the store returns, a list
\* invocation yields the records of the pages up to and including the first page at
\* which the running count reaches or exceeds the limit, and all the matching records
\* when no page does.
C8_PageGranularity ==
    Ended /\ qs.call.op = "list" =>
        IF qs.call.limit.some /\ FirstBoundary(qs.responses, qs.call.limit.v) > 0
        THEN Len(qs.contents) =
                 CountSum(qs.responses, FirstBoundary(qs.responses, qs.call.limit.v))
        ELSE Len(qs.contents) = Len(MatchingRecords(qs.call))

\* C9: a request carries Limit only when the invocation's limit is set (the Limit is
\* that limit) and the request carries no FilterExpression; a request that carries a
\* FilterExpression carries no Limit, and then the limit acts through the running
\* count alone: a further request is sent only while the count is below a truthy limit.
C9_LimitForwarding ==
    \A i \in 1..Len(qs.requests) :
        LET request == qs.requests[i]
        IN  /\ request.HasLimit =>
                   /\ qs.call.limit.some
                   /\ request.Limit = qs.call.limit.v
                   /\ ~request.HasFilterExpression
            /\ request.HasFilterExpression =>
                   /\ ~request.HasLimit
                   /\ i > 1 /\ Truthy(qs.call.limit) =>
                          CountSum(qs.responses, i - 1) < qs.call.limit.v

\* an invocation with a filter expression and a limit has ended after two requests,
\* neither carrying Limit, once the running count had reached the limit
C9_Witness ==
    /\ Ended
    /\ Len(qs.requests) = 2
    /\ \A i \in 1..2 : qs.requests[i].HasFilterExpression /\ ~qs.requests[i].HasLimit
    /\ Truthy(qs.call.limit)
    /\ qs.responses[2].HasLastEvaluatedKey
    /\ CountSum(qs.responses, 2) >= qs.call.limit.v

\* C10: in a list or list_between invocation every request after the first follows a
\* response that carried a LastEvaluatedKey and, when a limit is set, a running sum of
\* Count below the limit; an invocation that passed validation has sent its first
\* request.
C10_StopConditions ==
    /\ \A i \in 2..Len(qs.requests) :
           /\ qs.responses[i - 1].HasLastEvaluatedKey
           /\ qs.call.limit.some => CountSum(qs.responses, i - 1) < qs.call.limit.v
    /\ qs.call.op # "none" /\ qs.raised = "" => Len(qs.requests) >= 1

-----------------------------------------------------------------------------
(* The page requests of one invocation *)

\* a request without its cursor
WithoutCursor(request) ==
    [request EXCEPT !.HasExclusiveStartKey = FALSE, !.ExclusiveStartKey = <<>>]

\* C11: in a list, list_between or delete invocation at most one page request is
\* unanswered at any time (request i + 1 is sent after response i); the first request
\* carries no ExclusiveStartKey, every later request carries the LastEvaluatedKey of
\* the response before it, and but for that cursor every request equals the first (key
\* condition, filter expression, sort direction, Limit, projection).
C11_CursorChain ==
    /\ Len(qs.requests) = Len(qs.responses) + (IF qs.pc = "query" THEN 1 ELSE 0)
    /\ Len(qs.requests) >= 1 => ~qs.requests[1].HasExclusiveStartKey
    /\ \A i \in 2..Len(qs.requests) :
           /\ qs.responses[i - 1].HasLastEvaluatedKey
           /\ qs.requests[i].HasExclusiveStartKey
           /\ qs.requests[i].ExclusiveStartKey = qs.responses[i - 1].LastEvaluatedKey
           /\ WithoutCursor(qs.requests[i]) = qs.requests[1]

\* a delete has ended after three page requests, the third from the cursor of the
\* second response
C11_Witness ==
    /\ qs.pc = "done"
    /\ qs.call.op = "delete"
    /\ Len(qs.requests) = 3
    /\ qs.requests[3].ExclusiveStartKey = qs.responses[2].LastEvaluatedKey
    /\ qs.requests[3].ExclusiveStartKey # qs.requests[2].ExclusiveStartKey

-----------------------------------------------------------------------------
(* What the consumer of list has been handed *)

\* the number of records the consumer has been handed so far
Handed == IF Len(qs.yielded) = 0 THEN 0 ELSE Len(qs.yielded[1])

\* C12: in a list or list_between invocation the records of every page are handed to
\* the consumer before the next page request is sent: when request i + 1 has been
\* sent, the consumer has been handed the records of responses 1..i.
C12_Streaming ==
    qs.call.op \in {"list", "list_between"} =>
        \A i \in 2..Len(qs.requests) : Handed >= CountSum(qs.responses, i - 1)

-----------------------------------------------------------------------------
(* get_batch: chunks and follow-up requests *)

\* the keys of the k-th run of ChunkSize consecutive request ids
ChunkKeys(request_ids, k) ==
    BatchKeys(SubSeq(request_ids, (k - 1) * ChunkSize + 1, Min(k * ChunkSize, Len(request_ids))))

NumChunks(request_ids) == (Len(request_ids) + ChunkSize - 1) \div ChunkSize

\* a batch_get_item request is sent in this step
RequestSent == gb'.pc = "batch_get_item" /\ gb.pc # "batch_get_item"

\* C13: get_batch sends its requests one after the other, a request only once the one
\* before it was answered. The first asks for the first ChunkSize request ids in input
\* order; after a response that reports unprocessed keys the next request asks for
\* exactly those keys, for the same chunk; after a response that reports none the next
\* request asks for the next ChunkSize request ids, and get_batch ends when no chunk is
\* left. A request for the next chunk follows no response with unprocessed keys.
C13_BatchSequence ==
    [][/\ gb.pc = "batch_get_item" => gb'.pc = "yielded" /\ gb'.keys = gb.keys
       /\ gb.pc = "idle" /\ gb'.pc # "idle" =>
              IF Len(gb'.request_ids) = 0
              THEN gb'.pc = "done"
              ELSE /\ RequestSent
                   /\ gb'.batch_number = 1
                   /\ gb'.keys = ChunkKeys(gb'.request_ids, 1)
       /\ gb.pc = "yielded" =>
              IF Len(gb.response.UnprocessedKeys) > 0
              THEN /\ RequestSent
                   /\ gb'.batch_number = gb.batch_number
                   /\ gb'.keys = gb.response.UnprocessedKeys
              ELSE IF gb.batch_number < NumChunks(gb.request_ids)
              THEN /\ RequestSent
                   /\ gb'.batch_number = gb.batch_number + 1
                   /\ gb'.keys = ChunkKeys(gb.request_ids, gb.batch_number + 1)
              ELSE gb'.pc = "done"]_vars

\* the second of three chunks has been asked for, one of its two keys was reported
\* unprocessed, and the request in flight asks for that key alone
C13_Witness ==
    /\ gb.pc = "batch_get_item"
    /\ NumChunks(gb.request_ids) = 3
    /\ gb.batch_number = 2
    /\ gb.attempts = 2
    /\ gb.keys = gb.response.UnprocessedKeys
    /\ Len(gb.keys) = 1
    /\ gb.keys[1] = ChunkKeys(gb.request_ids, 2)[2]

\* the record the table holds for a request id, as get_batch returns it
StoredContent(request_id) == _db_item_to_object(table[KeyOf(BatchKeys(<<request_id>>)[1])])

IsStored(request_id) == KeyOf(BatchKeys(<<request_id>>)[1]) \in DOMAIN table

\* C14: the contents get_batch has yielded are the items of all the responses it has
\* received, follow-up responses included, each once and in the order received; once
\* it has ended (every key served, the request ids distinct), the record of every
\* request id the table holds a record for has been yielded exactly once, and nothing
\* else has.
C14_BatchRecords ==
    /\ gb.delivered = [i \in 1..Len(gb.received) |-> _db_item_to_object(gb.received[i])]
    /\ gb.pc = "done" =>
           /\ \A i \in 1..Len(gb.request_ids) :
                  IsStored(gb.request_ids[i]) =>
                      Cardinality({j \in 1..Len(gb.delivered) :
                                      gb.delivered[j] = StoredContent(gb.request_ids[i])}) = 1
           /\ Len(gb.delivered) =
                  Cardinality({i \in 1..Len(gb.request_ids) : IsStored(gb.request_ids[i])})

\* a get_batch of five request ids in three chunks has ended with the four stored
\* records, the third request id's record yielded after the fourth's because its key
\* was first reported unprocessed
C14_Witness ==
    /\ gb.pc = "done"
    /\ gb.request_ids = BatchPool
    /\ Len(gb.delivered) = 4
    /\ gb.delivered[2] = StoredContent(BatchPool[4])
    /\ gb.delivered[3] = StoredContent(BatchPool[3])

-----------------------------------------------------------------------------
(* get_batch: termination *)

\* C15: with a consumer that goes on asking and a store that, asked again and again,
\* in the end answers with no unprocessed key, every get_batch that has sent a request
\* ends; it has ended only after a response without unprocessed keys, having gone
\* through all its chunks; and after a response with unprocessed keys it asks again
\* for the same chunk however many requests it has sent for it (no retry cap), so it
\* advances only when the store reports no unprocessed key.
C15_Termination ==
    /\ (gb.pc = "batch_get_item") ~> (gb.pc = "done")
    /\ [](gb.pc = "done" =>
              /\ Len(gb.response.UnprocessedKeys) = 0
              /\ gb.batch_number = NumChunks(gb.request_ids))
    /\ [][/\ gb.pc = "yielded" /\ Len(gb.response.UnprocessedKeys) > 0 =>
                 /\ gb'.pc = "batch_get_item"
                 /\ gb'.batch_number = gb.batch_number
                 /\ gb'.keys = gb.response.UnprocessedKeys
          /\ gb'.batch_number # gb.batch_number /\ gb.pc = "yielded" =>
                 Len(gb.response.UnprocessedKeys) = 0]_vars

\* a get_batch of three chunks has ended after MaxAttempts or more requests for its
\* last chunk
C15_Witness ==
    /\ gb.pc = "done"
    /\ NumChunks(gb.request_ids) = 3
    /\ gb.attempts = MaxAttempts
    /\ Len(gb.delivered) = 4

-----------------------------------------------------------------------------
(* delete *)

\* the keys of a table that delete(partition_id, content_prefix) addresses: those of
\* the partition whose sort key begins with the composed content prefix
Addressed(tbl, partition_id, content_prefix) ==
    {key \in DOMAIN tbl :
        /\ key[1] = _partition_id(OrEmpty(partition_id))
        /\ StartsWith(key[2], _content_id(OrEmpty(content_prefix)))}

\* C16: once delete(partition_id, content_prefix) has completed, no record of that
\* partition whose sort key begins with the composed content prefix is stored,
\* whatever the number of query pages, and every record the table held before the
\* call under another key is stored unchanged.
C16_DeleteFrame ==
    (qs.pc = "done" /\ qs.call.op = "delete") =>
        LET gone == Addressed(qs.before, qs.call.partition_id, qs.call.content_start)
        IN  /\ Addressed(table, qs.call.partition_id, qs.call.content_start) = {}
            /\ DOMAIN table = (DOMAIN qs.before) \ gone
            /\ \A key \in DOMAIN table : table[key] = qs.before[key]

\* a delete of the whole partition has completed after two or more pages; the records
\* of the other partition are all that is left of a table that held both
C16_Witness ==
    /\ qs.pc = "done"
    /\ qs.call.op = "delete"
    /\ qs.call.content_start = IdNone
    /\ Len(qs.responses) >= 2
    /\ Cardinality(Addressed(qs.before, qs.call.partition_id, qs.call.content_start)) = 4
    /\ Cardinality(DOMAIN table) = 1

-----------------------------------------------------------------------------
(* list_between with equal bounds *)

\* the invocation in progress is a list_between whose bounds are equal
EqualBounds ==
    /\ qs.call.op = "list_between"
    /\ OrEmpty(qs.call.content_start) = OrEmpty(qs.call.content_end)

\* C17: list_between(p, x, x, sort_ascending, limit, filters) runs as
\* list(p, x, sort_ascending, limit, filters) does: it raises the schema violation
\* list raises for the filters, and otherwise it pages under the caller's limit from
\* the first request list sends (the caller's sort direction, Limit and
\* FilterExpression), so that it yields the same records in the same order.
C17_EqualBoundsAsList ==
    EqualBounds =>
        LET as_list == list(qs.call.partition_id, qs.call.content_start,
                            qs.call.sort_ascending, qs.call.limit, qs.call.filters)
        IN  /\ qs.raised = as_list.raised
            /\ qs.limit = as_list.limit
            /\ as_list.raised = "" => qs.requests[1] = as_list.query_kwargs

-----------------------------------------------------------------------------
(* validate_command_for_schema *)

\* the members of a sequence
Members(seq) == {seq[i] : i \in 1..Len(seq)}

\* the fields a command names that the schema does not allow it to: set keys outside
\* the schema, nested keys outside the nested model, a dict set on a field that is
\* neither a model nor an object, increment and append keys outside the schema, and
\* increment keys of fields that are not integers
InvalidFields(schema, command) ==
    LET props == DOMAIN schema.properties
        sets == Members(command.set_commands)
    IN  {<<e.k>> : e \in {e \in sets : e.k \notin props}}
        \cup UNION {{<<e.k, inner.k>> :
                        inner \in {inner \in Members(e.d) :
                                      inner.k \notin
                                          schema.definitions[schema.properties[e.k].ref].properties}} :
                    e \in {e \in sets : /\ e.k \in props
                                        /\ e.isdict
                                        /\ schema.properties[e.k].ref # ""}}
        \cup {<<e.k>> : e \in {e \in sets : /\ e.k \in props
                                            /\ e.isdict
                                            /\ schema.properties[e.k].ref = ""
                                            /\ schema.properties[e.k].type # "object"}}
        \cup {<<k>> : k \in (Members(DictKeys(command.increment_attrs))
                             \cup Members(DictKeys(command.append_attrs))) \ props}
        \cup {<<k>> : k \in {k \in Members(DictKeys(command.increment_attrs)) \cap props :
                                schema.properties[k].type # "integer"}}

\* C18: validate_command_for_schema raises when the command names an invalid field in
\* any of set_commands (nested keys included), increment_attrs and append_attrs, a
\* non-integer increment target included, and the one error it raises lists each of the
\* command's invalid fields once and no other field.
C18_AllViolations ==
    (fn.op = "validate" /\ fn.applied) =>
        LET invalid == InvalidFields(ExampleSchema, fn.command)
        IN  /\ fn.validation.raised <=> invalid # {}
            /\ fn.validation.raised =>
                   /\ Members(fn.validation.fields) = invalid
                   /\ Len(fn.validation.fields) = Cardinality(invalid)

-----------------------------------------------------------------------------
(* update: the store's errors *)

\* the error carries the code of a failed condition
CarriesConditionalCheckFailed(error) ==
    /\ error # NoException
    /\ error.has_response
    /\ error.code = "ConditionalCheckFailedException"

\* C19: an update whose request reaches the store raises RequestObjectStateError
\* exactly when the store's error carries the code ConditionalCheckFailedException;
\* any other error of the store is raised again as it is, with the table as it was;
\* and whatever the store answered, the update has ended with that one update_item
\* call: nothing is sent again.
C19_ErrorTranslation ==
    [][\A c \in Clients, fault \in AnyFault :
           UpdateItem(c, fault) =>
               LET error == StoreUpdateItem(table, UpdateKwargs(req[c].key, req[c].args),
                                            fault).error
               IN  /\ outcome'.status = "RequestObjectStateError"
                          <=> CarriesConditionalCheckFailed(error)
                   /\ error # NoException /\ ~CarriesConditionalCheckFailed(error) =>
                          outcome'.exception = error
                   /\ error = NoException =>
                          outcome'.status = "ok" /\ outcome'.exception = NoException
                   /\ error # NoException => table' = table
                   /\ pc'[c] = "idle"
                   /\ req'[c] = NoReq]_vars

\* an update has ended with the store's throttling error, raised as the store raised it
C19_Witness ==
    /\ outcome.op = "update"
    /\ outcome.status = "ClientError"
    /\ outcome.exception = Exception("ClientError", TRUE, "ProvisionedThroughputExceededException")
    /\ \A c \in Clients : pc[c] = "idle"

-----------------------------------------------------------------------------
(* The key codec *)

\* C20: for every non-empty segment list S, the item _put_content composes for a
\* content whose partition_ids and content_ids are S is read back by
\* _db_item_to_object with partition_ids = S and content_ids = S.
C20_CodecRoundTrip ==
    (fn.op = "codec" /\ fn.applied /\ Len(fn.ids) > 0) =>
        /\ fn.partition_ids = fn.ids
        /\ fn.content_ids = fn.ids

-----------------------------------------------------------------------------
(* update and the internal attributes *)

\* the TTL an item carries, as an optional value
TtlOf(item) ==
    IF INTERNAL_TTL \in DOMAIN item THEN Some(item[INTERNAL_TTL]) ELSE None

\* C21: whatever a command names in set_commands, increment_attrs and append_attrs,
\* the internal attributes included, an update that succeeds leaves the record with a
\* version counter one above the one it had (0 for no record), with the clock reading
\* as its timestamp, and with the TTL of the command's expiry when the command has one
\* and the TTL it had, or none, when the command has none.
C21_InternalAttributes ==
    [][\A c \in Clients :
           UpdateItem(c, NoException) /\ outcome'.status = "ok" =>
               LET key == KeyOf(req[c].key)
                   after == table'[key]
               IN  /\ Version(table', key) = Version(table, key) + 1
                   /\ after[INTERNAL_TIMESTAMP_KEY] = req[c].now
                   /\ TtlOf(after) = IF req[c].command.expiry.some
                                      THEN Some(Timestamp(req[c].command.expiry.v))
                                      ELSE TtlOf(StoredItem(table, key))]_vars

\* an update without expiry has succeeded on a record that was put with a TTL: the
\* record has version 2 and the TTL it was put with
C21_Witness ==
    /\ outcome.op = "update"
    /\ outcome.status = "ok"
    /\ OutcomeKey \in DOMAIN table
    /\ table[OutcomeKey][INTERNAL_OBJECT_VERSION] = 2
    /\ TtlOf(table[OutcomeKey]) = Some(5)

-----------------------------------------------------------------------------
(* WriteOnceRepository.write *)

\* the table key of a content
ContentKey(content) == <<_partition_id(IdList(content.partition_ids)), ContentSortKey(content)>>

\* the contents of an input for whose key the table holds no record, or a record that
\* reads as another content
MissingOrDiffering(tbl, input_contents) ==
    {content \in Members(input_contents) :
        \/ ContentKey(content) \notin DOMAIN tbl
        \/ _db_item_to_object(tbl[ContentKey(content)]) # content}

\* C22: a write that has returned with no other writer's put since its call has put
\* the contents of its input whose key held no record, or a record that differs from
\* the input, at its call, each once, and returns them; it has left every other
\* record as it was, an input equal to its stored record included; it has called
\* put_batch once, or not at all when there was nothing to put, and has sent the store
\* nothing for an empty input.  No write calls put_batch twice.
C22_WriteSelection ==
    \A c \in Clients :
        /\ wo[c].put_batch_calls <= 1
        /\ wo[c].pc = "done" /\ ~wo[c].disturbed =>
               LET expected == MissingOrDiffering(wo[c].before, wo[c].input_contents)
               IN  /\ Members(wo[c].new_contents) = expected
                   /\ Len(wo[c].new_contents) = Cardinality(expected)
                   /\ wo[c].put_batch_calls = IF expected = {} THEN 0 ELSE 1
                   /\ wo[c].put = wo[c].new_contents
                   /\ \A content \in expected :
                          /\ ContentKey(content) \in DOMAIN table
                          /\ \E now \in Clock :
                                 table[ContentKey(content)] = _put_content(content, now)
                   /\ \A key \in DOMAIN wo[c].before :
                          key \notin {ContentKey(content) : content \in expected} =>
                              key \in DOMAIN table /\ table[key] = wo[c].before[key]
                   /\ Len(wo[c].input_contents) = 0 =>
                          wo[c].list_between_calls = 0 /\ wo[c].put_batch_calls = 0

\* a write of three contents of two partitions has returned two of them, the third
\* being stored already as the input has it
C22_Witness ==
    \E c \in Clients :
        /\ wo[c].pc = "done"
        /\ ~wo[c].disturbed
        /\ Len(wo[c].input_contents) = 3
        /\ ContentKey(WriteA0) \in DOMAIN wo[c].before
        /\ wo[c].list_between_calls = 2
        /\ wo[c].put_batch_calls = 1
        /\ Len(wo[c].new_contents) = 2


\* C23: a write called again with the input of the write before it, no other writer
\* having put in between or since, finds every input stored and identical: it calls
\* put_batch zero times and returns an empty list.
C23_WriteTwice ==
    \A c \in Clients :
        (wo[c].pc = "done" /\ wo[c].repeat /\ ~wo[c].disturbed) =>
            /\ Len(wo[c].new_contents) = 0
            /\ wo[c].put_batch_calls = 0


\* C30: when two writes that were under way together have both returned, a content
\* that both inputs carry and whose key held no record at either call has been put by
\* exactly one of them.
C30_ConcurrentWrites ==
    \A c \in Clients :
        LET d == Other(c)
        IN  (/\ wo[c].pc = "done" /\ wo[d].pc = "done"
             /\ wo[c].concurrent /\ wo[d].concurrent) =>
                \A content \in Members(wo[c].input_contents) \cap Members(wo[d].input_contents) :
                    (/\ ContentKey(content) \notin DOMAIN wo[c].before
                     /\ ContentKey(content) \notin DOMAIN wo[d].before) =>
                        (content \in Members(wo[c].put)) # (content \in Members(wo[d].put))


-----------------------------------------------------------------------------
(* The aliases of a compiled update *)

\* how many names and how many values the set section binds: one name per entry and
\* per nested entry, one value per scalar entry and per nested entry
RECURSIVE SetNames(_)
SetNames(set_attrs) ==
    IF Len(set_attrs) = 0 THEN 0
    ELSE 1 + (IF set_attrs[1].isdict THEN Len(set_attrs[1].d) ELSE 0) + SetNames(Tail(set_attrs))

RECURSIVE SetValues(_)
SetValues(set_attrs) ==
    IF Len(set_attrs) = 0 THEN 0
    ELSE (IF set_attrs[1].isdict THEN Len(set_attrs[1].d) ELSE 1) + SetValues(Tail(set_attrs))

\* the clauses of an update expression, without the separators
Clauses(expr) == SelectSeq(expr, LAMBDA tok : tok.op # "sep")

\* C24: in every compiled update the alias indices come from one increasing counter
\* shared by the set, increment and append sections: every binding of a name and
\* every binding of a value has an alias of its own (there are as many aliases in
\* each table as the three sections bind), the value aliases of the clauses are
\* :val0, :val1, ... in the order of the clauses and the name alias of the attribute
\* a clause assigns increases from clause to clause (the clauses of one mapping share
\* the alias of its field), and every alias a clause refers to is defined in its table
C24_AliasCounter ==
    \A c \in Clients :
        pc[c] = "update_item" =>
            LET args == req[c].args
                set_attrs == SetAttrs(req[c].command, req[c].now)
                add_attrs == AddAttrs(req[c].command)
                append_attrs == AppendAttrs(req[c].command)
                clauses == Clauses(args.update_expression)
            IN  /\ Cardinality(DOMAIN args.attribute_names)
                       = SetNames(set_attrs) + Len(add_attrs) + Len(append_attrs)
                /\ Cardinality(DOMAIN args.attribute_values)
                       = 1 + SetValues(set_attrs) + Len(add_attrs) + Len(append_attrs)
                           + (IF Len(append_attrs) > 0 THEN 1 ELSE 0)
                /\ \A i \in 1..Len(clauses) :
                       /\ clauses[i].val = ValId(i - 1)
                       /\ clauses[i].val \in DOMAIN args.attribute_values
                       /\ \A j \in 1..Len(clauses[i].path) :
                              clauses[i].path[j] \in DOMAIN args.attribute_names
                       /\ clauses[i].op = "add" => ZeroId \in DOMAIN args.attribute_values
                       /\ clauses[i].op = "append" => EmptyListId \in DOMAIN args.attribute_values
                /\ \A i, j \in 1..Len(clauses) :
                       i < j => clauses[i].path[Len(clauses[i].path)][2]
                                    < clauses[j].path[Len(clauses[j].path)][2]

\* an update in flight whose command sets two nested fields and a scalar, increments
\* and appends
C24_Witness ==
    \E c \in Clients :
        /\ pc[c] = "update_item"
        /\ \E i \in 1..Len(req[c].command.set_commands) :
               /\ req[c].command.set_commands[i].isdict
               /\ Len(req[c].command.set_commands[i].d) = 2
        /\ Len(req[c].command.increment_attrs) > 0
        /\ Len(req[c].command.append_attrs) > 0
        /\ Len(Clauses(req[c].args.update_expression)) = 7

\* C27: the update expression of every command that passes validation is a list of
\* one or more clauses separated by exactly one ", " each, with no empty clause and
\* no leading or trailing separator
C27_ExpressionGrammar ==
    \A c \in Clients :
        pc[c] = "update_item" => WellFormedExpression(req[c].args.update_expression)


-----------------------------------------------------------------------------
(* The condition of an update *)

\* the condition the spec describes for a call: one equality per key field when
\* require_exists is true, then one on the version counter when current_version is
\* neither None nor 0
ExpectedCondition(key, current_version, require_exists) ==
    (IF require_exists
     THEN <<Eq(partition_key, KeyOf(key)[1]), Eq(sort_key, KeyOf(key)[2])>>
     ELSE <<>>)
    \o (IF current_version.some /\ current_version.v # 0
        THEN <<Eq(INTERNAL_OBJECT_VERSION, current_version.v)>>
        ELSE <<>>)

\* an update in flight that asks for nothing: require_exists is false and
\* current_version is None or 0
Unconditional(r) ==
    /\ ~r.require_exists
    /\ ~r.current_version.some \/ r.current_version.v = 0

\* C25: the condition sent with an update is the AND of one equality per key field
\* when require_exists is true, further ANDed with an equality on the version counter
\* when current_version is neither None nor 0; when require_exists is false and
\* current_version is None or 0 no condition is sent, and the store does not refuse
\* the update on account of the stored state: an expression the store can parse is
\* applied to the record, or to a new record when there is none
C25_Condition ==
    [][\A c \in Clients :
          /\ pc'[c] = "update_item" =>
                 /\ req'[c].args.condition_expression
                        = ExpectedCondition(req'[c].key, req'[c].current_version,
                                            req'[c].require_exists)
                 /\ Unconditional(req'[c]) =>
                        ~UpdateKwargs(req'[c].key, req'[c].args).HasCondition
          /\ (UpdateItem(c, NoException) /\ Unconditional(req[c])) =>
                 /\ outcome'.status # "RequestObjectStateError"
                 /\ WellFormedExpression(req[c].args.update_expression) =>
                        /\ outcome'.status = "ok"
                        /\ Version(table', KeyOf(req[c].key))
                               = Version(table, KeyOf(req[c].key)) + 1]_vars

\* an update with current_version = 0 and require_exists false was applied to a
\* record whose version was 1
C25_Witness ==
    /\ outcome.op = "update"
    /\ outcome.status = "ok"
    /\ outcome.current_version = Some(0)
    /\ ~outcome.require_exists
    /\ OutcomeKey \in DOMAIN table
    /\ Version(table, OutcomeKey) = 2


-----------------------------------------------------------------------------
(* The caller's command object *)

\* what update did with the call in flight: its request, and the caller's command
\* object as the call left it
CallInFlight(c) ==
    UpdateOf[UpdateInput(req[c].pid, req[c].cid, req[c].command, req[c].require_exists,
                         req[c].now)]

\* C28: update leaves the caller's command unchanged (set_commands, increment_attrs
\* and append_attrs are after the call what they were before), and passing the same
\* command object to update again passes validation and issues a request with the
\* same expression and alias tables as the first
C28_CommandUnchanged ==
    \A c \in Clients :
        pc[c] = "update_item" =>
            LET first == CallInFlight(c)
                again == update(req[c].pid, req[c].cid, first.command, req[c].require_exists,
                                req[c].now)
            IN  /\ first.command = req[c].command
                /\ again.send
                /\ again.args = first.args


-----------------------------------------------------------------------------
(* The version counter over puts and updates *)

\* C29: over any sequence of successful puts and updates the version counter of a
\* key never decreases while its record exists, and a record starts with version 1
C29_VersionMonotonic ==
    [][\A key \in DOMAIN table' :
          IF key \in DOMAIN table
          THEN Version(table', key) >= Version(table, key)
          ELSE Version(table', key) = 1]_vars


-----------------------------------------------------------------------------
(* Interleaved list invocations *)

\* how an invocation can end when it runs alone against tbl, over every way the
\* store may cut the pages
RECURSIVE RunAlone(_, _)
RunAlone(q, tbl) ==
    IF q.pc # "query" THEN {q}
    ELSE UNION {RunAlone(AfterResponse(q, response), tbl) :
                   response \in StoreQuery(tbl, q.query_kwargs)}

\* C26: two list or list_between invocations on one repository instance, their page
\* requests interleaved, each send only the cursors of their own responses (the
\* request in flight carries the LastEvaluatedKey of the invocation's last response,
\* and none before its first response), each count only their own items, and each
\* yield what the same invocation can yield when it runs alone against the table
C26_ListsIsolation ==
    \A c \in Clients :
        LET q == ls[c]
            n == Len(q.responses)
        IN  /\ q.pc = "query" =>
                   /\ q.query_kwargs.HasExclusiveStartKey <=> n > 0
                   /\ n > 0 => /\ q.responses[n].HasLastEvaluatedKey
                               /\ q.query_kwargs.ExclusiveStartKey
                                      = q.responses[n].LastEvaluatedKey
                   /\ q.requests[Len(q.requests)] = q.query_kwargs
            /\ q.pc # "idle" =>
                   q.total_count = Len(q.contents)
            /\ q.pc = "done" =>
                   q.yielded \in {alone.yielded :
                                     alone \in RunAlone(Started(q.call, StartOf(q.call)), table)}

\* both invocations have received a page and have their next request in flight, each
\* with a cursor of its own
C26_Witness ==
    /\ \A c \in Clients : ls[c].pc = "query" /\ Len(ls[c].responses) >= 1
    /\ ls["c1"].call # ls["c2"].call
    /\ ls["c1"].query_kwargs.ExclusiveStartKey # ls["c2"].query_kwargs.ExclusiveStartKey

====
